---------------------------- MODULE Spec2Model ----------------------------
(***************************************************************************)
(* Terrain-slope estimation of FERTIMAQ: the interactive point-sampled     *)
(* variant (src/fertimaq/tabs/escolha_talhao.py) and the raster-DEM batch  *)
(* tool (src/aclive_operacional.py).                                       *)
(*                                                                         *)
(* Number representation.  The program computes in binary floating point;  *)
(* the model computes in integers:                                         *)
(*   lengths, coordinates, steps, elevations : quarter metres (1 m = 4)    *)
(*   slope and grade percentages             : thousandths of a percent    *)
(*   angles                                  : thousandths of a degree     *)
(* Divisions round towards minus infinity (\div).  atan and tan are        *)
(* evaluated through TanTable, a table of 100000*tan(d) for whole degrees  *)
(* d, with linear interpolation in between.                                *)
(***************************************************************************)
EXTENDS Integers, Sequences, FiniteSets, TLC

VARIABLES
    upc,            \* position of the _slopes_from_polygon invocation
    projected,      \* its argument: the projected polygon, <<x, y>> vertices
    original,       \* its argument: the altitudes of the vertices
    answers,        \* what the elevation service answers in this invocation
    grid,           \* DemGrid returned by _collect_dem_grid, or None
    slopes_pct,     \* _compute_percentiles: the slope array
    smoothed,       \* _compute_percentiles: the smoothed array
    percentiles,    \* the table returned by _compute_percentiles
    sel,            \* locals of _slopes_from_polygon (operational_pct, ...)
    result,         \* the returned tuple, as a record
    requests,       \* the queries _fetch_elevations sent for the grid, in order
    previous,         \* the Result the caller holds from the invocation before
    reference,      \* observer: arguments and Result of the first invocation
    rpc,            \* position of the batch tool: main and pipeline
    rargs,          \* the batch tool's command line and the files it names
    rloc,           \* locals of pipeline (dem, slope_pct, mask, ...)
    rexit,          \* the exit status main returns
    rout,           \* what the batch tool wrote: stdout, and the log records
    unit,           \* a helper function applied on its own: arguments, value
    app,            \* FertiMaqApp: its fields and the text of its StringVars
    tab             \* EscolhaTalhaoTab: its fields and widgets

ui == <<upc, projected, original, answers, grid, slopes_pct, smoothed,
        percentiles, sel, result, requests>>

raster == <<rpc, rargs, rloc, rexit, rout>>

gui == <<app, tab>>

vars == <<upc, projected, original, answers, grid, slopes_pct, smoothed,
          percentiles, sel, result, requests, previous, reference, rpc, rargs, rloc, rexit, rout,
          unit, app, tab>>

\* Python's None, as a value comparable with every record of the model
None == [none |-> TRUE]

\* an exception in flight
Raised(kind) == [raised |-> kind]

IsRaised(v) == "raised" \in DOMAIN v

\* np.nan: the "undefined" sentinel of the numeric arrays, outside the range
\* of every elevation, slope and angle of the model
NaN == 0 - 2000000000

isfinite(v) == v # NaN

Abs(a) == IF a < 0 THEN -a ELSE a
Min(a, b) == IF a <= b THEN a ELSE b
Max(a, b) == IF a >= b THEN a ELSE b

RECURSIVE SumRange(_, _, _)
\* f[lo] + ... + f[hi], by halves
SumRange(f, lo, hi) ==
    IF lo > hi THEN 0
    ELSE IF lo = hi THEN f[lo]
    ELSE LET mid == (lo + hi) \div 2
         IN SumRange(f, lo, mid) + SumRange(f, mid + 1, hi)

\* f[1] + ... + f[n]
SumTo(f, n) == SumRange(f, 1, n)

RECURSIVE SqrtIter(_, _)
SqrtIter(n, x) ==
    LET y == (x + n \div x) \div 2
    IN IF y >= x THEN x ELSE SqrtIter(n, y)

\* math.sqrt on integers: the integer part of the square root
Sqrt(n) == IF n <= 0 THEN 0 ELSE SqrtIter(n, Min(n, 46340))

(***************************************************************************)
(* Trigonometry: src/fertimaq/tabs/escolha_talhao.py:488-489               *)
(***************************************************************************)
\* TanTable[d + 1] = floor(100000 * tan(d degrees)), d = 0 .. 89
TanTable == <<
    0, 1745, 3492, 5240, 6992, 8748, 10510, 12278, 14054, 15838,
    17632, 19438, 21255, 23086, 24932, 26794, 28674, 30573, 32491, 34432,
    36397, 38386, 40402, 42447, 44522, 46630, 48773, 50952, 53170, 55430,
    57735, 60086, 62486, 64940, 67450, 70020, 72654, 75355, 78128, 80978,
    83909, 86928, 90040, 93251, 96568, 99999, 103553, 107236, 111061, 115036,
    119175, 123489, 127994, 132704, 137638, 142814, 148256, 153986, 160033,
    166427, 173205, 180404, 188072, 196261, 205030, 214450, 224603, 235585,
    247508, 260508, 274747, 290421, 307768, 327085, 348741, 373205, 401078,
    433147, 470463, 514455, 567128, 631375, 711536, 814434, 951436, 1143005,
    1430066, 1908113, 2863625, 5728996 >>

Tan100k(d) == TanTable[d + 1]

\* math.degrees(math.atan(pct / 100)) for pct >= 0: thousandths of a percent
\* to thousandths of a degree.  The interpolation rounds up, so that for a
\* whole number of degrees d the test "angle > d" is true exactly when
\* pct / 100 > tan(d), as it is in the program.
AtanDegPos(q) ==
    LET d == CHOOSE e \in 0..89 :
               /\ Tan100k(e) <= q
               /\ (e < 89 => q < Tan100k(e + 1))
        w == Tan100k(d + 1) - Tan100k(d)
    IN IF d >= 88 THEN 1000 * d
       ELSE 1000 * d + (1000 * (q - Tan100k(d)) + w - 1) \div w

\* atan is odd
AtanDeg(p) == IF p < 0 THEN 0 - AtanDegPos(0 - p) ELSE AtanDegPos(p)

_pct_to_deg(slope_pct) == AtanDeg(slope_pct)

\* math.tan(math.radians(angle_deg)) * 100: thousandths of a degree
\* (0 .. 89000) to thousandths of a percent
TanPct(a) ==
    LET d == Min(a \div 1000, 88)
        f == a - 1000 * d
    IN Tan100k(d) + ((Tan100k(d + 1) - Tan100k(d)) \div 1000) * f
       + (((Tan100k(d + 1) - Tan100k(d)) % 1000) * f) \div 1000


(***************************************************************************)
(* Projection helpers: src/fertimaq/tabs/escolha_talhao.py:184-218         *)
(***************************************************************************)
RECURSIVE Shoelace(_, _)
Shoelace(points, i) ==
    IF i > Len(points) THEN 0
    ELSE LET j == (i % Len(points)) + 1
         IN (points[i][1] * points[j][2]) - (points[j][1] * points[i][2])
            + Shoelace(points, i + 1)

\* _polygon_area_m2, in units of 1/32 m2 (twice the area in square quarter
\* metres), so that abs(area) * 0.5 stays an integer
_polygon_area_m2(points) ==
    IF points = <<>> THEN 0 ELSE Abs(Shoelace(points, 1))

\* square metres in the unit of _polygon_area_m2
M2(a) == 32 * a

\* one edge of the even-odd ray test.  The code divides by
\* (yj - yi + 1e-12): when the point lies exactly on the edge line the
\* 1e-12 decides, and it decides "left of the edge" exactly when
\* (xj - xi) * (y - yi) is negative.
Intersects(x, y, pi, pj) ==
    LET xi == pi[1]
        yi == pi[2]
        xj == pj[1]
        yj == pj[2]
        d == yj - yi
        num == (xj - xi) * (y - yi)
        lhs == (x - xi) * d
    IN /\ (yi > y) # (yj > y)
       /\ IF lhs = num THEN num < 0
          ELSE IF d > 0 THEN lhs < num ELSE lhs > num

_point_in_polygon(x, y, polygon) ==
    LET n == Len(polygon)
        crossings == {i \in 1..n :
                        Intersects(x, y, polygon[i],
                                   polygon[IF i = 1 THEN n ELSE i - 1])}
    IN Cardinality(crossings) % 2 = 1

_choose_sampling_step(area_m2) ==
    IF area_m2 <= M2(30000) THEN 4 * 10
    ELSE IF area_m2 <= M2(200000) THEN 4 * 20
    ELSE IF area_m2 <= M2(1000000) THEN 4 * 35
    ELSE IF area_m2 <= M2(5000000) THEN 4 * 60
    ELSE 4 * 90


(***************************************************************************)
(* Elevation service, as this model sees it.  The service is external; an  *)
(* invocation's answers are a terrain z(x, y), which each dataset samples  *)
(* at the requested points, and the behaviour of each dataset (it answers, *)
(* or one of its requests fails).  Terrains are planes (gx, gy: tenths of  *)
(* the rise per run) with an optional steeper part beyond x = kx.          *)
(***************************************************************************)
TerrainElev(t, x, y) ==
    t.base + (t.gx * x + t.gy * y) \div 10
    + (IF x > t.kx THEN (t.kg * (x - t.kx)) \div 10 ELSE 0)

\* the datasets of line 121, in the order of the loop
Datasets == <<"srtm30m", "aster30m", "etopo1">>

chunk_size == 100

\* the number of requests a lookup of n points takes, line 136
ChunkCount(n) == (n + chunk_size - 1) \div chunk_size

\* what a dataset would answer for the point <<x, y>>: the datasets differ
\* by a constant of 1 m from one to the next
DatasetElev(d, t, x, y) == TerrainElev(t, x, y) + 4 * (d - 1)

\* the behaviour o of a dataset (fails: "no", or the failure of lines 142-153;
\* chunk: the request that fails) makes a lookup of n points fail
DatasetFails(o, n) == o.fails # "no" /\ o.chunk <= ChunkCount(n)

_fetch_elevation_dataset_partial(coords, d, ans) ==
    LET o == ans.service[d]
        n == Len(coords)
    IN IF DatasetFails(o, n)
       THEN [values |-> [i \in 1..(o.chunk - 1) * chunk_size |->
                           DatasetElev(d, ans.terrain, coords[i][1], coords[i][2])],
             queries |-> [i \in 1..o.chunk |-> <<Datasets[d], i>>]]
       ELSE [values |-> [i \in 1..n |-> DatasetElev(d, ans.terrain, coords[i][1], coords[i][2])],
             queries |-> [i \in 1..ChunkCount(n) |-> <<Datasets[d], i>>]]

\* lines 129-155: the list returned, and the requests sent
_fetch_elevation_dataset(coords, d, ans) ==
    LET o == ans.service[d]
        n == Len(coords)
    IN IF DatasetFails(o, n)
       THEN [values |-> <<>>,
             queries |-> [i \in 1..o.chunk |-> <<Datasets[d], i>>]]
       ELSE [values |-> [i \in 1..n |->
                           DatasetElev(d, ans.terrain, coords[i][1], coords[i][2])],
             queries |-> [i \in 1..ChunkCount(n) |-> <<Datasets[d], i>>]]

RECURSIVE FetchFrom(_, _, _)
\* the loop of lines 122-126 from dataset d on
FetchFrom(coords, ans, d) ==
    IF d > Len(Datasets) THEN [values |-> <<>>, queries |-> <<>>]
    ELSE LET r == _fetch_elevation_dataset(coords, d, ans)
         IN IF r.values # <<>> THEN r
            ELSE LET rest == FetchFrom(coords, ans, d + 1)
                 IN [values |-> rest.values, queries |-> r.queries \o rest.queries]

\* lines 120-126
_fetch_elevations_skipping(coords, ans) == FetchFrom(coords, ans, 2)

_fetch_elevations(coords, ans) == FetchFrom(coords, ans, 1)

(***************************************************************************)
(* Grid builder: src/fertimaq/tabs/escolha_talhao.py:220-288               *)
(***************************************************************************)
MIN_BUFFER_RETENTION == 70      \* percent: 0.7

\* np.arange(lo, hi + step, step)
arange(lo, hi, step) ==
    [k \in 1..((hi - lo + step + step - 1) \div step) |-> lo + (k - 1) * step]

\* the cells <<iy, ix>> of an ny x nx array, in row-major order
AllCells(ny, nx) == [k \in 1..(ny * nx) |-> <<(k - 1) \div nx, (k - 1) % nx>>]

CellSet(ny, nx) == (0..(ny - 1)) \X (0..(nx - 1))

\* the true cells of a mask in the order of "for iy ...: for ix ...:"
RowMajor(mask, ny, nx) == SelectSeq(AllCells(ny, nx), LAMBDA c : c \in mask)

\* scipy.ndimage.binary_erosion(mask, structure=np.ones((3, 3)), border_value=0)
binary_erosion(mask) ==
    {c \in mask : \A dy \in -1..1 : \A dx \in -1..1 : <<c[1] + dy, c[2] + dx>> \in mask}

SeqMin(s, k) == CHOOSE v \in {s[i][k] : i \in 1..Len(s)} : \A i \in 1..Len(s) : v <= s[i][k]
SeqMax(s, k) == CHOOSE v \in {s[i][k] : i \in 1..Len(s)} : \A i \in 1..Len(s) : v >= s[i][k]

\* an edge buffer that takes the eroded mask whatever it retains
EdgeBuffer_unguarded(mask, area_m2) ==
    IF mask # {} /\ area_m2 > M2(10000 * 30) /\ binary_erosion(mask) # {}
    THEN binary_erosion(mask) ELSE mask

\* the mask after the edge-buffer policy (lines 254-265)
EdgeBuffer(mask, area_m2) ==
    IF mask # {} /\ area_m2 > M2(10000 * 30)
    THEN LET eroded == binary_erosion(mask)
         IN IF Cardinality(eroded) > 0
               /\ 100 * Cardinality(eroded) >= MIN_BUFFER_RETENTION * Cardinality(mask)
            THEN eroded ELSE mask
    ELSE mask

\* one pass of "for _ in range(3)" (lines 244-274) and the passes after it
RECURSIVE GridAttempt(_, _, _, _)
GridAttempt(poly, area_m2, step, attempt) ==
    LET x_coords == arange(SeqMin(poly, 1), SeqMax(poly, 1), step)
        y_coords == arange(SeqMin(poly, 2), SeqMax(poly, 2), step)
        inside == {c \in CellSet(Len(y_coords), Len(x_coords)) :
                     _point_in_polygon(x_coords[c[2] + 1], y_coords[c[1] + 1], poly)}
        mask == EdgeBuffer(inside, area_m2)
        cells == RowMajor(mask, Len(y_coords), Len(x_coords))
    IN IF Cardinality(mask) >= 3
       THEN [mask |-> mask, x_coords |-> x_coords, y_coords |-> y_coords, step |-> step,
             coords |-> [i \in 1..Len(cells) |->
                           <<x_coords[cells[i][2] + 1], y_coords[cells[i][1] + 1]>>]]
       ELSE IF attempt = 3 THEN None
       ELSE GridAttempt(poly, area_m2, Max(step \div 2, 4 * 5), attempt + 1)

\* a fill that hands the elevations out from the last to the first
FillMatrix_reversed(mask, ny, nx, elevations) ==
    LET order == RowMajor(mask, ny, nx)
    IN [c \in CellSet(ny, nx) |->
          IF c \in mask
          THEN elevations[Len(order) + 1 - (CHOOSE idx \in 1..Len(order) : order[idx] = c)]
          ELSE NaN]

\* lines 280-286: the idx-th true cell of the mask, in row-major order,
\* receives elevations[idx]; the other cells stay np.nan
FillMatrix(mask, ny, nx, elevations) ==
    LET order == RowMajor(mask, ny, nx)
    IN [c \in CellSet(ny, nx) |->
          IF c \in mask
          THEN elevations[CHOOSE idx \in 1..Len(order) : order[idx] = c]
          ELSE NaN]

\* lines 228-239: the step the first attempt samples with
SamplingStep(poly) ==
    LET base == _choose_sampling_step(_polygon_area_m2(poly))
        span_x == SeqMax(poly, 1) - SeqMin(poly, 1)
        span_y == SeqMax(poly, 2) - SeqMin(poly, 2)
    IN \* approx_count > 4000, and step * sqrt(approx_count / 4000)
       IF (span_x + base) * (span_y + base) > 4000 * base * base
       THEN Sqrt(((span_x + base) * (span_y + base)) \div 4000)
       ELSE base

_collect_dem_grid(poly, ans) ==
    LET area_m2 == _polygon_area_m2(poly)
        g == GridAttempt(poly, area_m2, SamplingStep(poly), 1)
    IN IF area_m2 <= 0 THEN None
       ELSE IF g = None THEN None
       ELSE LET elevations == _fetch_elevations(g.coords, ans).values
                ny == Len(g.y_coords)
                nx == Len(g.x_coords)
            IN IF elevations = <<>> \/ Len(elevations) # Len(g.coords) THEN None
               ELSE [elevations |-> FillMatrix(g.mask, ny, nx, elevations),
                     mask |-> g.mask, x_coords |-> g.x_coords,
                     y_coords |-> g.y_coords, step |-> g.step]


\* the requests the call of line 276 sends
GridRequests(poly, ans) ==
    LET g == GridAttempt(poly, _polygon_area_m2(poly), SamplingStep(poly), 1)
    IN IF _polygon_area_m2(poly) <= 0 \/ g = None THEN <<>>
       ELSE _fetch_elevations(g.coords, ans).queries

(***************************************************************************)
(* Slope calculations: src/fertimaq/tabs/escolha_talhao.py:393-485         *)
(***************************************************************************)
\* a difference that forgets the sign of the subtrahend
Minus_added(a, b) == IF a = NaN \/ b = NaN THEN NaN ELSE a + b

\* a - b in floating point: undefined when an operand is
Minus(a, b) == IF a = NaN \/ b = NaN THEN NaN ELSE a - b

\* a derivative that takes the neighbours of the array, in the mask or not
Derivative_unmasked(elev, mask, c, lo, hi, has_lo, has_hi) ==
    IF has_lo /\ has_hi THEN Minus(elev[hi], elev[lo])
    ELSE IF has_lo THEN
        LET d == Minus(elev[c], elev[lo]) IN IF d = NaN THEN NaN ELSE 2 * d
    ELSE IF has_hi THEN
        LET d == Minus(elev[hi], elev[c]) IN IF d = NaN THEN NaN ELSE 2 * d
    ELSE 0

\* dz over one axis, as the numerator of a fraction over 2 * step:
\* lo, hi are the neighbours before and after cell c on that axis, has_lo
\* and has_hi say whether they lie inside the array
Derivative(elev, mask, c, lo, hi, has_lo, has_hi) ==
    IF has_lo /\ has_hi /\ lo \in mask /\ hi \in mask THEN Minus(elev[hi], elev[lo])
    ELSE IF has_lo /\ lo \in mask THEN
        LET d == Minus(elev[c], elev[lo]) IN IF d = NaN THEN NaN ELSE 2 * d
    ELSE IF has_hi /\ hi \in mask THEN
        LET d == Minus(elev[hi], elev[c]) IN IF d = NaN THEN NaN ELSE 2 * d
    ELSE 0

\* math.tan(math.atan(math.sqrt(dzdx^2 + dzdy^2))) * 100 with
\* dzdx = nx / (2 step), dzdy = ny / (2 step)
SlopeMagnitude(nx, ny, step) ==
    IF nx = NaN \/ ny = NaN THEN NaN
    ELSE (Sqrt((nx * nx + ny * ny) * 10000) * 1000) \div (2 * step)

_compute_slope_percent(g) ==
    LET elev == g.elevations
        mask == g.mask
        ny == Len(g.y_coords)
        nx == Len(g.x_coords)
    IN IF \A c \in mask : ~isfinite(elev[c])
       THEN [c \in CellSet(ny, nx) |-> NaN]
       ELSE [c \in CellSet(ny, nx) |->
               IF c \notin mask \/ ~isfinite(elev[c]) THEN NaN
               ELSE SlopeMagnitude(
                      Derivative(elev, mask, c, <<c[1], c[2] - 1>>, <<c[1], c[2] + 1>>,
                                 c[2] > 0, c[2] < nx - 1),
                      Derivative(elev, mask, c, <<c[1] - 1, c[2]>>, <<c[1] + 1, c[2]>>,
                                 c[1] > 0, c[1] < ny - 1),
                      g.step)]

Clamp(i, n) == IF i < 0 THEN 0 ELSE IF i > n - 1 THEN n - 1 ELSE i

\* the cells under a window of w x w pixels centred on c, one per window
\* position; mode="nearest" repeats the edge cells beyond the border
WindowCells(c, w, ny, nx) ==
    [k \in 1..(w * w) |->
        <<Clamp(c[1] + ((k - 1) \div w) - ((w - 1) \div 2), ny),
          Clamp(c[2] + ((k - 1) % w) - ((w - 1) \div 2), nx)>>]

\* lines 433-436 (and 241-244 of aclive_operacional.py): the window the
\* smoother uses for a requested window_px
SmoothWindow(window_px) ==
    LET w3 == IF window_px < 3 THEN 3 ELSE window_px
    IN IF w3 % 2 = 0 THEN w3 + 1 ELSE w3

_smooth(values, mask, window_px, ny, nx) ==
    LET w == SmoothWindow(window_px)
        valid == {c \in mask : isfinite(values[c])}
    IN [c \in CellSet(ny, nx) |->
          LET win == WindowCells(c, w, ny, nx)
              counts == SumTo([k \in 1..(w * w) |-> IF win[k] \in valid THEN 1 ELSE 0], w * w)
              weighted == SumTo([k \in 1..(w * w) |->
                                   IF win[k] \in valid THEN values[win[k]] ELSE 0], w * w)
          IN IF counts = 0 THEN NaN ELSE weighted \div counts]

\* the k-th smallest (k = 0, 1, ...) of the values vals[c], c in V
OrderStat(vals, V, k) ==
    CHOOSE v \in {vals[c] : c \in V} :
        /\ Cardinality({c \in V : vals[c] < v}) <= k
        /\ Cardinality({c \in V : vals[c] <= v}) > k

\* np.nanpercentile(valid, q), linear interpolation between order statistics
nanpercentile(vals, V, q) ==
    LET n == Cardinality(V)
        k == ((n - 1) * q) \div 100
        f == ((n - 1) * q) % 100
        lo == OrderStat(vals, V, k)
    IN IF f = 0 THEN lo
       ELSE lo + ((OrderStat(vals, V, k + 1) - lo) * f) \div 100

\* np.nanmean(valid): V is a set of cells of an array of nx columns
nanmean(vals, V, nx) ==
    LET last == CHOOSE k \in {c[1] * nx + c[2] + 1 : c \in V} :
                    \A c \in V : c[1] * nx + c[2] + 1 <= k
    IN SumTo([k \in 1..last |->
                LET c == <<(k - 1) \div nx, (k - 1) % nx>>
                IN IF c \in V THEN vals[c] ELSE 0], last)
       \div Cardinality(V)

\* a clip that leaves the values alone
Clip_none(v, low, high) == v

\* a clip that gives the undefined cells the lower bound
Clip_defining(v, low, high) == IF v = NaN THEN low ELSE Min(Max(v, low), high)

\* np.clip(values, low, high) on one cell
Clip(v, low, high) == IF v = NaN THEN NaN ELSE Min(Max(v, low), high)

_winsorize(values, mask, pct) ==
    LET valid == {c \in mask : isfinite(values[c])}
    IN IF pct <= 0 THEN values
       ELSE IF valid = {} THEN values
       ELSE LET low == nanpercentile(values, valid, pct)
                high == nanpercentile(values, valid, 100 - pct)
            IN [c \in DOMAIN values |-> Clip(values[c], low, high)]

\* round(a / b) of Python 3: to the nearest integer, halves to the even one
round(a, b) ==
    LET q == a \div b
        r == a % b
    IN IF 2 * r < b THEN q
       ELSE IF 2 * r > b THEN q + 1
       ELSE IF q % 2 = 0 THEN q ELSE q + 1

\* max(3, int(round(janela_m / grid.step))), line 468
WindowPx(janela_m, step) == Max(3, round(janela_m, step))

ValueError == [raised |-> "ValueError"]

\* lines 477-484: the table over the valid smoothed cells
PercentileTable(values, valid, nx) ==
    [r \in {50, 70, 80, 85, 90, 95} |->
        IF r = 50 THEN nanmean(values, valid, nx)
        ELSE nanpercentile(values, valid, r)]

(***************************************************************************)
(* Corrections and the boundary estimate:                                  *)
(* src/fertimaq/tabs/escolha_talhao.py:30-37, 491-542                      *)
(***************************************************************************)
DEFAULT_OPERATIONAL_PERCENTILE == 80
FALLBACK_OPERATIONAL_PERCENTILE == 70
OPERATIONAL_THRESHOLD_DEG == 15
ALPHA_DEGREES == 30
SLOPE_CORRECTION_THRESHOLD_DEG == 20
SLOPE_CORRECTION_FACTOR == 70       \* percent: 0.7

\* 1000 * math.sin(math.radians(a)) for a multiple of 15 degrees
SinTable == <<0, 259, 500, 707, 866, 966, 1000>>

\* slope_pct * math.sin(math.radians(alpha))
TimesSin(slope_pct, alpha) == (slope_pct * SinTable[(alpha \div 15) + 1]) \div 1000

\* a correction repeated until the angle is at most the threshold
RECURSIVE _apply_correction_pct_repeated(_)
_apply_correction_pct_repeated(slope_pct) ==
    IF _pct_to_deg(slope_pct) > 1000 * SLOPE_CORRECTION_THRESHOLD_DEG
    THEN <<_apply_correction_pct_repeated((slope_pct * SLOPE_CORRECTION_FACTOR) \div 100)[1], TRUE>>
    ELSE <<slope_pct, FALSE>>

\* <<value, applied>>
_apply_correction_pct(slope_pct) ==
    IF _pct_to_deg(slope_pct) > 1000 * SLOPE_CORRECTION_THRESHOLD_DEG
    THEN <<(slope_pct * SLOPE_CORRECTION_FACTOR) \div 100, TRUE>>
    ELSE <<slope_pct, FALSE>>

_apply_correction_deg(angle_deg) ==
    IF angle_deg <= 1000 * SLOPE_CORRECTION_THRESHOLD_DEG THEN <<angle_deg, FALSE>>
    ELSE LET c == _apply_correction_pct(TanPct(angle_deg))
         IN <<_pct_to_deg(c[1]), c[2]>>

\* the edge from vertex i to the next one: <<dist, slope in degrees>>
EdgeSlope(proj, orig, n, i) ==
    LET j == (i % n) + 1
        dx == proj[j][1] - proj[i][1]
        dy == proj[j][2] - proj[i][2]
        dist == Sqrt(dx * dx + dy * dy)
        rise == Abs(orig[j] - orig[i])
    IN IF dist <= 0 THEN <<0, 0>>
       ELSE <<dist, AtanDeg((100000 * rise) \div dist)>>

_slopes_from_edges(proj, orig) ==
    LET n == Min(Len(proj), Len(orig))
        e == [i \in 1..n |-> EdgeSlope(proj, orig, n, i)]
        total_length == SumTo([i \in 1..n |-> e[i][1]], n)
        weighted_sum == SumTo([i \in 1..n |-> e[i][1] * e[i][2]], n)
        max_raw == IF total_length = 0 THEN 0
                   ELSE CHOOSE m \in {e[i][2] : i \in 1..n} : \A i \in 1..n : e[i][2] <= m
        avg_raw == IF total_length = 0 THEN 0 ELSE weighted_sum \div total_length
        avg == _apply_correction_deg(avg_raw)
        mx == _apply_correction_deg(max_raw)
    IN IF n < 2
       THEN [mean_deg |-> 0, operational_deg |-> 0, severe_deg |-> 0,
             operational_percentile |-> DEFAULT_OPERATIONAL_PERCENTILE,
             correction_applied |-> FALSE]
       ELSE [mean_deg |-> avg[1], operational_deg |-> mx[1], severe_deg |-> mx[1],
             operational_percentile |-> DEFAULT_OPERATIONAL_PERCENTILE,
             correction_applied |-> avg[2] \/ mx[2]]


(***************************************************************************)
(* Raster-DEM batch tool: src/aclive_operacional.py                        *)
(*                                                                         *)
(* The parcel is a rectangle w x h whose sides lie on pixel edges of a DEM *)
(* of square pixels; the cropped DEM (crop_dem_to_polygon, 5 m outside     *)
(* margin) is the pixels of the parcel and the ring of pixels the margin   *)
(* reaches.  Reading, reprojection and cropping are rasterio's and         *)
(* geopandas'; the model takes their result, or their failure, as given.   *)
(***************************************************************************)
\* pixels of margin around the parcel: buffer_exterior = 5.0 m, line 345
CropMargin(res) == (4 * 5 + res - 1) \div res

\* reproject_dem + crop_dem_to_polygon: the cropped array, one elevation
\* per pixel centre, np.nan where the DEM has no data
CroppedDem(a) ==
    LET m == CropMargin(a.res)
        ny == a.h \div a.res + 2 * m
        nx == a.w \div a.res + 2 * m
    IN [ny |-> ny, nx |-> nx, res |-> a.res, margin |-> m,
        array |-> [c \in CellSet(ny, nx) |->
                     IF c \in a.nodata THEN NaN
                     ELSE TerrainElev(a.terrain,
                                      (c[2] - m) * a.res + a.res \div 2,
                                      (c[1] - m) * a.res + a.res \div 2)]]

\* the 3 x 3 neighbourhood of c, scipy's default mode="reflect"
Window3(c, ny, nx) == WindowCells(c, 3, ny, nx)

\* the median of nine values
Median9(v) ==
    CHOOSE x \in {v[k] : k \in 1..9} :
        /\ Cardinality({k \in 1..9 : v[k] < x}) <= 4
        /\ Cardinality({k \in 1..9 : v[k] <= x}) >= 5

\* lines 152-158
median_denoise(array, ny, nx) ==
    LET filled == [c \in CellSet(ny, nx) |-> IF isfinite(array[c]) THEN array[c] ELSE 0]
    IN [c \in CellSet(ny, nx) |->
          IF ~isfinite(array[c]) THEN NaN
          ELSE LET win == Window3(c, ny, nx)
               IN Median9([k \in 1..9 |-> filled[win[k]]])]

\* np.gradient along one axis, as the numerator of a fraction over 2 * res:
\* i is the index on that axis, n its length, lo and hi the neighbours
Gradient(array, c, lo, hi, i, n) ==
    IF i = 0 THEN LET d == Minus(array[hi], array[c]) IN IF d = NaN THEN NaN ELSE 2 * d
    ELSE IF i = n - 1 THEN LET d == Minus(array[c], array[lo]) IN IF d = NaN THEN NaN ELSE 2 * d
    ELSE Minus(array[hi], array[lo])

\* lines 161-172: <<slope_pct, resolucao_m>>, or what it raises
calculate_slope_percent(array, ny, nx, xres, yres) ==
    IF ny * nx = 0 THEN Raised("ValueError")
    ELSE IF xres <= 0 \/ yres <= 0 THEN Raised("ValueError")
    ELSE IF ny < 2 \/ nx < 2 THEN Raised("ValueError")     \* np.gradient
    ELSE [slope_pct |->
            [c \in CellSet(ny, nx) |->
               IF ~isfinite(array[c]) THEN NaN
               ELSE SlopeMagnitude(
                      Gradient(array, c, <<c[1], c[2] - 1>>, <<c[1], c[2] + 1>>, c[2], nx),
                      Gradient(array, c, <<c[1] - 1, c[2]>>, <<c[1] + 1, c[2]>>, c[1], ny),
                      xres)],
          resolucao_m |-> (xres + yres) \div 2]

\* a rectangle [x0, x1] x [y0, y1], in millimetres
RectArea(g) == IF g.x1 <= g.x0 \/ g.y1 <= g.y0 THEN 0
               ELSE ((g.x1 - g.x0) \div 100) * ((g.y1 - g.y0) \div 100)   \* dm2

\* shapely's geometry.buffer(-d) of a rectangle
Shrink(g, d) == [x0 |-> g.x0 + d, y0 |-> g.y0 + d, x1 |-> g.x1 - d, y1 |-> g.y1 - d]

is_empty(g) == g.x1 <= g.x0 \/ g.y1 <= g.y0

RECURSIVE BufferLoop(_, _, _)
\* lines 179-186, min_fraction = 0.7, min_area_m2 = 10_000.0
BufferLoop(geometry, geom, current) ==
    IF /\ \/ is_empty(geom)
          \/ RectArea(geom) < 100 * 10000
          \/ 10 * RectArea(geom) < 7 * RectArea(geometry)
       /\ current > 3000
    THEN BufferLoop(geometry, Shrink(geometry, (current * 3) \div 4), (current * 3) \div 4)
    ELSE <<geom, current>>

RECURSIVE BufferWarnings(_, _, _)
\* the warnings of lines 180-184, one per round of the loop
BufferWarnings(geometry, geom, current) ==
    IF /\ \/ is_empty(geom)
          \/ RectArea(geom) < 100 * 10000
          \/ 10 * RectArea(geom) < 7 * RectArea(geometry)
       /\ current > 3000
    THEN <<"WARNING">> \o BufferWarnings(geometry, Shrink(geometry, (current * 3) \div 4),
                                          (current * 3) \div 4)
    ELSE <<>>

\* the log records of inward_buffer: lines 180-184 and 188
inward_buffer_log(geometry, buffer_m) ==
    BufferWarnings(geometry, Shrink(geometry, buffer_m), buffer_m)
    \o (IF is_empty(BufferLoop(geometry, Shrink(geometry, buffer_m), buffer_m)[1])
        THEN <<"WARNING">> ELSE <<>>)

\* inward_buffer without lines 187-189
inward_buffer_unguarded(geometry, buffer_m) ==
    BufferLoop(geometry, Shrink(geometry, buffer_m), buffer_m)

\* lines 175-190: <<geometry, distance>>, distances in millimetres
inward_buffer(geometry, buffer_m) ==
    LET r == BufferLoop(geometry, Shrink(geometry, buffer_m), buffer_m)
    IN IF is_empty(r[1]) THEN <<geometry, 0>> ELSE r

\* rasterio's geometry_mask(invert=True): the pixels whose centre lies in
\* the geometry
rasterize_mask(g, dem) ==
    {c \in CellSet(dem.ny, dem.nx) :
        LET cx == 250 * ((c[2] - dem.margin) * dem.res) + 125 * dem.res
            cy == 250 * ((c[1] - dem.margin) * dem.res) + 125 * dem.res
        IN g.x0 < cx /\ cx < g.x1 /\ g.y0 < cy /\ cy < g.y1}

\* lines 354-363
PipelineErosion(mask, area_total_m2) ==
    IF area_total_m2 > 10000 * 30
    THEN LET eroded_mask == binary_erosion(mask)
         IN IF Cardinality(eroded_mask) > 0
            THEN IF 10 * Cardinality(eroded_mask) >= 7 * Cardinality(mask)
                 THEN eroded_mask ELSE mask
            ELSE mask
    ELSE mask

\* lines 255-263
winsorize(values, mask, pct) ==
    IF pct <= 0 THEN values
    ELSE LET valid == {c \in mask : isfinite(values[c])}
         IN IF valid = {} THEN values
            ELSE LET low == nanpercentile(values, valid, pct)
                     high == nanpercentile(values, valid, 100 - pct)
                 IN [c \in DOMAIN values |-> Clip(values[c], low, high)]

\* math.ceil(a / b) for b > 0
ceil(a, b) == (a + b - 1) \div b

\* lines 303-307
clamp_window_pixels(janela_m, resolucao_m) ==
    LET window_px == Max(3, ceil(janela_m, resolucao_m))
    IN IF window_px % 2 = 0 THEN window_px + 1 ELSE window_px

\* the parameters of "def _uniform_filter(array, window)", line 236
UniformFilterParams == <<"array", "window">>

\* Python's binding of a call with npos positional arguments and the
\* keyword arguments kw to a function of parameters params
Binds(params, npos, kw) ==
    /\ npos <= Len(params)
    /\ kw \subseteq {params[i] : i \in (npos + 1)..Len(params)}
    /\ {params[i] : i \in (npos + 1)..Len(params)} \subseteq kw

\* lines 240-252: the two calls _uniform_filter(x, size=window_px,
\* mode="nearest") of lines 247-248 bind one positional argument and the
\* keywords size and mode
uniform_smooth(values, mask, window_px, ny, nx) ==
    IF ~Binds(UniformFilterParams, 1, {"size", "mode"}) THEN Raised("TypeError")
    ELSE [smoothed |-> _smooth(values, mask, window_px, ny, nx)]

(***************************************************************************)
(* Inputs of the model                                                     *)
(***************************************************************************)
MaxSide == 3        \* small parcels: rectangles of up to MaxSide x MaxSide cells of 10 m
MaxGrad == 3        \* terrain gradients 0 .. MaxGrad tenths (0% .. 30%) per axis
MaxBase == 2        \* flat terrains at 0, 10, .. 10 * MaxBase metres

Rect(w, h) == <<<<0, 0>>, <<w, 0>>, <<w, h>>, <<0, h>>>>

Polygons ==
    {Rect(40 * i, 40 * j) : i \in 1..MaxSide, j \in 1..MaxSide}
    \cup {Rect(12, 12),                                \* 3 m x 3 m
          <<<<-80, -60>>, <<80, -60>>, <<0, 100>>>>,    \* a triangle, 40 m x 40 m
          Rect(2240, 2240),                            \* 560 m x 560 m, 31.36 ha
          Rect(840, 5880)}                             \* 210 m x 1470 m, 30.87 ha

Terrains ==
    {[base |-> 40 * b, gx |-> 0, gy |-> 0, kx |-> 0, kg |-> 0] : b \in 0..MaxBase}
    \cup {[base |-> 0, gx |-> a, gy |-> b, kx |-> 0, kg |-> 0] : a \in 0..MaxGrad, b \in 0..MaxGrad}
    \cup {[base |-> 0, gx |-> 1, gy |-> 0, kx |-> k, kg |-> MaxGrad] : k \in {40, 80, 1540}}
    \cup {[base |-> 0, gx |-> a, gy |-> 0, kx |-> 0, kg |-> 0] : a \in {8, 11}}   \* 80 %, 110 %

\* how the datasets behave in an invocation: each answers, or fails at its
\* first or second request in one of the ways of lines 142-153
Answering == [fails |-> "no", chunk |-> 0]

Failing(kind, k) == [fails |-> kind, chunk |-> k]

Services ==
    {<<Answering, Answering, Answering>>,
     <<Failing("error", 1), Failing("count", 1), Failing("null", 1)>>}

PartialServices ==
    {<<Failing("error", 1), Answering, Answering>>,
     <<Failing("count", 2), Failing("null", 1), Answering>>,
     <<Failing("null", 2), Failing("error", 2), Failing("count", 2)>>}

\* the terrains under which the partly failing services are explored
PartialTerrains == {[base |-> 0, gx |-> 1, gy |-> 2, kx |-> 0, kg |-> 0]}

Answers(terrains) ==
    {[terrain |-> t, service |-> v] : t \in terrains, v \in Services}
    \cup {[terrain |-> t, service |-> v] : t \in PartialTerrains, v \in PartialServices}

\* a parcel file: the ring of its Placemark, whether its points carry the
\* altitude of the terrain or none (0.0, line 92), and whether the ring is
\* closed by listing the first point again.  Positions are given in the plane
\* of _project_points.
Files(polys) ==
    [ring : polys \cup {<<<<0, 0>>, <<120, 0>>>>, <<<<0, 0>>, <<0, 0>>>>},
     alts : {"gps", "none"}, closed : BOOLEAN]

\* lines 83-94: the points listed in the file, <<x, y, alt>>
ListedPoints(f, t) ==
    LET pts == [i \in 1..Len(f.ring) |->
                  <<f.ring[i][1], f.ring[i][2],
                    IF f.alts = "gps" THEN TerrainElev(t, f.ring[i][1], f.ring[i][2]) ELSE 0>>]
    IN IF f.closed THEN Append(pts, pts[1]) ELSE pts

\* lines 104-117
_enrich_elevation(points, ans) ==
    IF points = <<>> THEN points
    ELSE IF Cardinality({points[i][3] : i \in 1..Len(points)}) > 1 THEN points
    ELSE LET elevations == _fetch_elevations(points, ans).values
         IN IF elevations = <<>> THEN points
            ELSE [i \in 1..Len(points) |-> <<points[i][1], points[i][2], elevations[i]>>]

\* lines 96-102: [points |-> the ring], or what it raises
_load_polygon(listed, ans) ==
    IF Len(listed) < 3 THEN Raised("ValueError")
    ELSE [points |-> _enrich_elevation(
                        IF listed[1] = listed[Len(listed)]
                        THEN SubSeq(listed, 1, Len(listed) - 1) ELSE listed,
                        ans)]

(***************************************************************************)
(* Field data of the application: src/fertimaq/app.py:39-213.  Angles are  *)
(* thousandths of a degree, areas thousandths of a hectare; the text of a  *)
(* StringVar that holds a number in the format ".2f" is that number in     *)
(* hundredths.                                                             *)
(***************************************************************************)
\* None in a field that otherwise holds a number
NoNumber == 0 - 1

\* the text "" in a StringVar that otherwise holds a formatted number
EmptyText == 0 - 2

\* f"{x:.2f}" of x in thousandths: the text, in hundredths
Format2(x) == round(x, 10)

\* a text that is no number, and the "--" of a result that is not there
BadText == 0 - 3
Dashes == 0 - 4

\* lines 76-85 of app.py: the result variables, each "--"
NoResults == [peso_semeadora_t |-> Dashes, cv_trator_disponivel |-> Dashes]

\* lines 64-110 of app.py
AppInit ==
    [preparo |-> "Plantio_Direto", solo |-> "Medio", sulcador |-> "Facao",
     linhas |-> 7, aclive_percent |-> 1200, cv_trator_disponivel |-> 8000,
     velocidade_kmh |-> 560,
     status_var |-> "Informe os dados e execute o calculo.",
     result_vars |-> NoResults,
     kmz_path |-> "", area_hectares |-> EmptyText, area_source |-> "manual",
     slope_avg_deg |-> EmptyText, slope_max_deg |-> EmptyText,
     slope_selected_deg |-> EmptyText, slope_mode |-> "manual",
     manual_area_var |-> EmptyText, manual_slope_deg_var |-> EmptyText,
     _field_area_value |-> NoNumber, _field_slope_avg_deg |-> NoNumber,
     _field_slope_max_deg |-> NoNumber, _manual_slope_deg |-> NoNumber,
     tabview |-> "escolha_talhao"]

\* lines 591-618 of escolha_talhao.py
TabInit ==
    [_projected_polygon |-> <<>>, _original_polygon |-> <<>>,
     _projection_params |-> None, _map_bounds |-> None, _canvas_bg_photo |-> None,
     _status_var |-> "Nenhum talhao carregado.", _file_var |-> "",
     _slope_mean_deg |-> NoNumber, _correction_active |-> FALSE,
     _last_slope_mode |-> "manual", _manual_calc_button |-> "normal",
     _radio_buttons |-> "disabled"]

\* a write of field_vars["slope_mode"]: the variable, and the trace of line
\* 839 of escolha_talhao.py, which runs _on_mode_var_update (lines 956-958)
WriteSlopeMode(g, mode) ==
    [app |-> [g.app EXCEPT !.slope_mode = mode],
     tab |-> [g.tab EXCEPT !._last_slope_mode = mode]]

\* lines 153-158
set_field_area(g, hectares, source) ==
    [g EXCEPT !.app = [@ EXCEPT !._field_area_value = hectares,
                                !.area_hectares = Format2(hectares),
                                !.area_source = source,
                                !.manual_area_var =
                                    IF source = "manual" THEN Format2(hectares) ELSE @]]

\* lines 160-164
set_map_slopes(g, average_deg, maximum_deg) ==
    [g EXCEPT !.app = [@ EXCEPT !._field_slope_avg_deg = average_deg,
                                !._field_slope_max_deg = maximum_deg,
                                !.slope_avg_deg = Format2(average_deg),
                                !.slope_max_deg = Format2(maximum_deg)]]

\* lines 187-205: the state after the call, and the value returned
apply_slope_mode(g, mode) ==
    LET slope_deg == IF mode = "medio" THEN g.app._field_slope_avg_deg
                     ELSE IF mode = "maximo" THEN g.app._field_slope_max_deg
                     ELSE IF mode = "manual" THEN g.app._manual_slope_deg
                     ELSE NoNumber
        written == WriteSlopeMode(g, mode)
    IN IF slope_deg = NoNumber THEN [g |-> g, ret |-> FALSE]
       ELSE [g |-> [written EXCEPT !.app = [@ EXCEPT !.slope_selected_deg = Format2(slope_deg),
                                                     !.aclive_percent =
                                                         Format2(TanPct(slope_deg))]],
             ret |-> TRUE]

\* lines 166-176
clear_map_slopes(g) ==
    LET cleared == [g EXCEPT !.app = [@ EXCEPT !._field_slope_avg_deg = NoNumber,
                                               !._field_slope_max_deg = NoNumber,
                                               !.slope_avg_deg = EmptyText,
                                               !.slope_max_deg = EmptyText]]
    IN IF cleared.app.slope_mode \in {"medio", "maximo"}
       THEN IF cleared.app._manual_slope_deg # NoNumber
            THEN apply_slope_mode(cleared, "manual").g
            ELSE LET written == WriteSlopeMode(cleared, "manual")
                 IN [written EXCEPT !.app = [@ EXCEPT !.slope_selected_deg = EmptyText]]
       ELSE cleared

\* lines 178-181
set_manual_slope(g, slope_deg) ==
    apply_slope_mode([g EXCEPT !.app = [@ EXCEPT !._manual_slope_deg = slope_deg,
                                                 !.manual_slope_deg_var = Format2(slope_deg)]],
                     "manual").g

\* lines 183-185
set_manual_area(g, hectares) ==
    set_field_area([g EXCEPT !.app = [@ EXCEPT !.manual_area_var = Format2(hectares)]],
                   hectares, "manual")

\* lines 207-209
clear_manual_slope(g) ==
    [g EXCEPT !.app = [@ EXCEPT !._manual_slope_deg = NoNumber,
                                !.manual_slope_deg_var = EmptyText]]

\* the application and the tab, as the methods above take them
Gui == [app |-> app, tab |-> tab]

(***************************************************************************)
(* _slopes_from_polygon: src/fertimaq/tabs/escolha_talhao.py:545-580       *)
(***************************************************************************)
NoLocals == [none |-> TRUE]

Init ==
    /\ upc = "idle"
    /\ projected = <<>>
    /\ original = <<>>
    /\ answers = None
    /\ grid = None
    /\ slopes_pct = None
    /\ smoothed = None
    /\ percentiles = None
    /\ sel = NoLocals
    /\ result = None
    /\ requests = <<>>
    /\ previous = None
    /\ reference = None
    /\ rpc = "idle"
    /\ rargs = None
    /\ rloc = NoLocals
    /\ rexit = None
    /\ rout = None
    /\ unit = None
    /\ app = AppInit
    /\ tab = TabInit

\* lines 975-981 of _load_kmz: the parcel file is loaded and projected, and
\* _slopes_from_polygon(projected, polygon, projection) is called
Call(polys, answerset) ==
    /\ upc = "idle"
    /\ rpc = "idle"
    /\ \E f \in Files(polys) : \E ans \in answerset :
          LET loaded == _load_polygon(ListedPoints(f, ans.terrain), ans)
          IN /\ answers' = ans
             /\ IF IsRaised(loaded)
                THEN /\ projected' = <<>>
                     /\ original' = <<>>
                     /\ upc' = "raised"
                ELSE /\ projected' = [i \in 1..Len(loaded.points) |->
                                        <<loaded.points[i][1], loaded.points[i][2]>>]
                     /\ original' = [i \in 1..Len(loaded.points) |-> loaded.points[i][3]]
                     /\ upc' = "collect"
    /\ grid' = None
    /\ slopes_pct' = None
    /\ smoothed' = None
    /\ percentiles' = None
    /\ sel' = NoLocals
    /\ result' = None
    /\ requests' = <<>>
    /\ UNCHANGED <<previous, reference, raster, unit, gui>>

\* line 550
CollectDemGrid ==
    /\ upc = "collect"
    /\ grid' = _collect_dem_grid(projected, answers)
    /\ requests' = GridRequests(projected, answers)
    /\ upc' = IF grid' = None THEN "edges" ELSE "slope"
    /\ UNCHANGED <<projected, original, answers, slopes_pct, smoothed, percentiles, sel, result,
                   previous, reference, raster, unit, gui>>

\* lines 463-466
ComputeSlopePercent ==
    /\ upc = "slope"
    /\ slopes_pct' = _compute_slope_percent(grid)
    /\ upc' = IF \A c \in grid.mask : ~isfinite(slopes_pct'[c]) THEN "raised" ELSE "smooth"
    /\ UNCHANGED <<projected, original, answers, grid, smoothed, percentiles, sel, result,
                   requests, previous, reference, raster, unit, gui>>

\* lines 464, 468-471, with janela_m = 50.0 and winsorizar_pct = 0.0 (line 552)
Smooth ==
    /\ upc = "smooth"
    /\ LET mask == {c \in grid.mask : isfinite(slopes_pct[c])}
           s == _smooth(slopes_pct, mask, WindowPx(4 * 50, grid.step),
                        Len(grid.y_coords), Len(grid.x_coords))
       IN smoothed' = IF 0 > 0 THEN _winsorize(s, mask, 0) ELSE s
    /\ upc' = "percentiles"
    /\ UNCHANGED <<projected, original, answers, grid, slopes_pct, percentiles, sel, result,
                   requests, previous, reference, raster, unit, gui>>

\* a percentile stage that takes every finite cell of the smoothed grid
ComputePercentiles_unmasked ==
    /\ upc = "percentiles"
    /\ LET valid == {c \in DOMAIN smoothed : isfinite(smoothed[c])}
       IN IF valid = {}
          THEN /\ upc' = "raised"
               /\ percentiles' = None
          ELSE /\ upc' = "primary"
               /\ percentiles' = PercentileTable(smoothed, valid, Len(grid.x_coords))
    /\ UNCHANGED <<projected, original, answers, grid, slopes_pct, smoothed, sel, result,
                   requests, previous, reference, raster, unit, gui>>

\* lines 473-485
ComputePercentiles ==
    /\ upc = "percentiles"
    /\ LET valid == {c \in grid.mask : isfinite(slopes_pct[c]) /\ isfinite(smoothed[c])}
       IN IF valid = {}
          THEN /\ upc' = "raised"
               /\ percentiles' = None
          ELSE /\ upc' = "primary"
               /\ percentiles' = PercentileTable(smoothed, valid, Len(grid.x_coords))
    /\ UNCHANGED <<projected, original, answers, grid, slopes_pct, smoothed, sel, result,
                   requests, previous, reference, raster, unit, gui>>

\* lines 553-560
SelectPrimary ==
    /\ upc = "primary"
    /\ LET mean == _apply_correction_pct(percentiles[50])
       IN sel' = [mean_deg |-> _pct_to_deg(mean[1]),
                  correction_applied |-> mean[2],
                  operational_pct |-> percentiles[DEFAULT_OPERATIONAL_PERCENTILE],
                  operational_percentile |-> DEFAULT_OPERATIONAL_PERCENTILE,
                  operational_deg_raw |->
                      _pct_to_deg(percentiles[DEFAULT_OPERATIONAL_PERCENTILE])]
    /\ upc' = "fallback"
    /\ UNCHANGED <<projected, original, answers, grid, slopes_pct, smoothed, percentiles, result,
                   requests, previous, reference, raster, unit, gui>>

\* a selector that tests the operational angle instead
FallbackTest_operational(s, table) ==
    /\ _pct_to_deg(TimesSin(s.operational_pct, ALPHA_DEGREES)) > 1000 * OPERATIONAL_THRESHOLD_DEG
    /\ FALLBACK_OPERATIONAL_PERCENTILE \in DOMAIN table

\* a selector that remembers the fallback of the invocation before
FallbackTest_sticky(s, table) ==
    /\ \/ s.operational_deg_raw > 1000 * OPERATIONAL_THRESHOLD_DEG
       \/ /\ "operational_percentile" \in DOMAIN previous
          /\ previous.operational_percentile = FALLBACK_OPERATIONAL_PERCENTILE
    /\ FALLBACK_OPERATIONAL_PERCENTILE \in DOMAIN table

\* the test of lines 561-564
FallbackTest(s, table) ==
    /\ s.operational_deg_raw > 1000 * OPERATIONAL_THRESHOLD_DEG
    /\ FALLBACK_OPERATIONAL_PERCENTILE \in DOMAIN table

\* lines 561-567
SelectFallback ==
    /\ upc = "fallback"
    /\ sel' = IF FallbackTest(sel, percentiles)
              THEN [sel EXCEPT
                      !.operational_pct = percentiles[FALLBACK_OPERATIONAL_PERCENTILE],
                      !.operational_percentile = FALLBACK_OPERATIONAL_PERCENTILE,
                      !.operational_deg_raw =
                          _pct_to_deg(percentiles[FALLBACK_OPERATIONAL_PERCENTILE])]
              ELSE sel
    /\ upc' = "convert"
    /\ UNCHANGED <<projected, original, answers, grid, slopes_pct, smoothed, percentiles, result,
                   requests, previous, reference, raster, unit, gui>>

\* a conversion that always starts from the primary percentile
OperationalGrade_primary(s) ==
    _apply_correction_pct(TimesSin(percentiles[DEFAULT_OPERATIONAL_PERCENTILE], ALPHA_DEGREES))

\* lines 569-570: <<grade_operacional_pct, operational_corrected>>
OperationalGrade(s) ==
    _apply_correction_pct(TimesSin(s.operational_pct, ALPHA_DEGREES))

\* lines 569-578
Convert ==
    /\ upc = "convert"
    /\ LET op == OperationalGrade(sel)
           severe == _apply_correction_pct(percentiles[95])
       IN /\ result' = [mean_deg |-> sel.mean_deg,
                        operational_deg |-> _pct_to_deg(op[1]),
                        severe_deg |-> _pct_to_deg(severe[1]),
                        operational_percentile |-> sel.operational_percentile,
                        correction_applied |-> sel.correction_applied \/ op[2] \/ severe[2]]
          /\ sel' = [grade_operacional_pct |-> op[1], operational_corrected |-> op[2]] @@ sel
    /\ upc' = "done"
    /\ UNCHANGED <<projected, original, answers, grid, slopes_pct, smoothed, percentiles,
                   requests, previous, reference, raster, unit, gui>>

\* line 580
SlopesFromEdges ==
    /\ upc = "edges"
    /\ result' = _slopes_from_edges(projected, original)
    /\ upc' = "done"
    /\ UNCHANGED <<projected, original, answers, grid, slopes_pct, smoothed, percentiles, sel,
                   requests, previous, reference, raster, unit, gui>>

\* the outcome of a finished call: the returned tuple, or what it raised
Outcome == IF upc = "raised" THEN ValueError ELSE result

\* the call is over (returned, or raised to the caller's handler): its
\* arguments and locals are gone; the caller keeps the outcome when it
\* tracks it
Return(track) ==
    /\ upc \in {"done", "raised"}
    /\ upc' = "idle"
    /\ projected' = <<>>
    /\ original' = <<>>
    /\ answers' = None
    /\ grid' = None
    /\ slopes_pct' = None
    /\ smoothed' = None
    /\ percentiles' = None
    /\ sel' = NoLocals
    /\ result' = None
    /\ requests' = <<>>
    /\ previous' = IF track THEN Outcome ELSE previous
    /\ reference' = IF track /\ reference = None
                THEN [projected |-> projected, original |-> original,
                      answers |-> answers, outcome |-> Outcome]
                ELSE reference
    /\ UNCHANGED <<raster, unit, gui>>

(***************************************************************************)
(* main and pipeline: src/aclive_operacional.py:326-419, 471-497           *)
(***************************************************************************)
DEFAULT_ALPHA_GRAUS == 30
DEFAULT_JANELA_M == 50
DEFAULT_BUFFER_BORDA_M == 15

RasterParcels ==
    {[w |-> 400, h |-> 400, res |-> 20],         \* 100 m x 100 m, 5 m pixels
     [w |-> 160, h |-> 160, res |-> 40],         \* 40 m x 40 m, 10 m pixels
     [w |-> 20, h |-> 20, res |-> 20],           \* one pixel of 5 m
     [w |-> 2600, h |-> 2600, res |-> 200],      \* 650 m x 650 m, 42.25 ha
     [w |-> 2400, h |-> 2200, res |-> 200]}      \* 600 m x 550 m, 33 ha

RasterTerrains ==
    {[base |-> 40 * b, gx |-> 0, gy |-> 0, kx |-> 0, kg |-> 0] : b \in 0..MaxBase}
    \cup {[base |-> 0, gx |-> a, gy |-> 0, kx |-> 0, kg |-> 0] : a \in 1..MaxGrad}

RasterArgs ==
    {[w |-> p.w, h |-> p.h, res |-> p.res, terrain |-> t, nodata |-> nd,
      readable |-> rd, percentil |-> q,
      janela_suavizacao_m |-> 4 * DEFAULT_JANELA_M, alpha_graus |-> DEFAULT_ALPHA_GRAUS,
      buffer_borda_m |-> 1000 * DEFAULT_BUFFER_BORDA_M, winsorizar_pct |-> 0] :
        p \in RasterParcels, t \in RasterTerrains, nd \in {{}, {<<1, 1>>}},
        rd \in BOOLEAN, q \in {70, 80, 85, 90, 95}}

\* the log after the records of the levels ls
Logged(out, ls) == [out EXCEPT !.log = @ \o ls]

\* lines 471-491: the command line is parsed and pipeline is called
Main ==
    /\ rpc = "idle"
    /\ upc = "idle"
    /\ \E a \in RasterArgs : rargs' = a
    /\ rpc' = "read"
    /\ rloc' = NoLocals
    /\ rexit' = None
    /\ rout' = [stdout |-> <<>>, log |-> <<>>]
    /\ UNCHANGED <<ui, previous, reference, unit, gui>>

\* lines 336-345
ReadAndCrop ==
    /\ rpc = "read"
    /\ IF rargs.readable
       THEN /\ rloc' = [dem |-> CroppedDem(rargs)]
            /\ rout' = Logged(rout, <<"INFO">>)             \* line 339
            /\ rpc' = "denoise"
       ELSE /\ rloc' = Raised("FileNotFoundError")
            /\ rout' = rout
            /\ rpc' = "except"
    /\ UNCHANGED <<ui, previous, reference, rargs, rexit, unit, gui>>

\* line 346
MedianDenoise ==
    /\ rpc = "denoise"
    /\ rloc' = [rloc EXCEPT !.dem.array = median_denoise(@, rloc.dem.ny, rloc.dem.nx)]
    /\ rpc' = "slope"
    /\ UNCHANGED <<ui, previous, reference, rargs, rexit, rout, unit, gui>>

\* line 348
CalculateSlopePercent ==
    /\ rpc = "slope"
    /\ LET r == calculate_slope_percent(rloc.dem.array, rloc.dem.ny, rloc.dem.nx,
                                        rloc.dem.res, rloc.dem.res)
       IN IF IsRaised(r)
          THEN /\ rloc' = r
               /\ rpc' = "except"
          ELSE /\ rloc' = r @@ rloc
               /\ rpc' = "mask"
    /\ UNCHANGED <<ui, previous, reference, rargs, rexit, rout, unit, gui>>

\* lines 350-353
BuildMask ==
    /\ rpc = "mask"
    /\ LET geometry_utm == [x0 |-> 0, y0 |-> 0, x1 |-> 250 * rargs.w, y1 |-> 250 * rargs.h]
           inner == inward_buffer(geometry_utm, rargs.buffer_borda_m)
       IN rloc' = [area_total_m2 |-> (rargs.w * rargs.h) \div 16,
                   inner_geom |-> inner[1],
                   effective_buffer |-> inner[2],
                   mask |-> {c \in rasterize_mask(inner[1], rloc.dem) :
                               isfinite(rloc.slope_pct[c])}] @@ rloc
    /\ rpc' = "erosion"
    /\ rout' = Logged(rout, inward_buffer_log(
                   [x0 |-> 0, y0 |-> 0, x1 |-> 250 * rargs.w, y1 |-> 250 * rargs.h],
                   rargs.buffer_borda_m))
    /\ UNCHANGED <<ui, previous, reference, rargs, rexit, unit, gui>>

\* lines 354-365
Erosion ==
    /\ rpc = "erosion"
    /\ LET mask == PipelineErosion(rloc.mask, rloc.area_total_m2)
       IN IF mask = {}
          THEN /\ rloc' = Raised("ValueError")
               /\ rpc' = "except"
          ELSE /\ rloc' = [pre_erosion |-> rloc.mask] @@ [rloc EXCEPT !.mask = mask]
               /\ rpc' = "smooth"
    /\ rout' = IF /\ rloc.area_total_m2 > 10000 * 30
                  /\ \/ binary_erosion(rloc.mask) = {}
                     \/ 10 * Cardinality(binary_erosion(rloc.mask)) < 7 * Cardinality(rloc.mask)
               THEN Logged(rout, <<"INFO">>)                \* lines 361, 363
               ELSE rout
    /\ UNCHANGED <<ui, previous, reference, rargs, rexit, unit, gui>>

\* lines 367-368; lines 369-419 follow a return of uniform_smooth
UniformSmooth ==
    /\ rpc = "smooth"
    /\ LET janela_px == clamp_window_pixels(rargs.janela_suavizacao_m, rloc.resolucao_m)
           r == uniform_smooth(rloc.slope_pct, rloc.mask, janela_px, rloc.dem.ny, rloc.dem.nx)
       IN IF IsRaised(r)
          THEN /\ rloc' = r
               /\ rpc' = "except"
          ELSE /\ rloc' = [janela_px |-> janela_px, slope_smoothed |-> r.smoothed] @@ rloc
               /\ rpc' = "winsorize"
    /\ UNCHANGED <<ui, previous, reference, rargs, rexit, rout, unit, gui>>

\* a handler that returns 1 without a word
MainExcept_silent ==
    /\ rpc = "except"
    /\ rexit' = [status |-> 1]
    /\ rpc' = "exited"
    /\ UNCHANGED <<ui, previous, reference, rargs, rloc, rout, unit, gui>>

\* lines 492-494: "except Exception" logs the failure and main returns 1
MainExcept ==
    /\ rpc = "except"
    /\ rexit' = [status |-> 1]
    /\ rout' = Logged(rout, <<"ERROR">>)
    /\ rpc' = "exited"
    /\ UNCHANGED <<ui, previous, reference, rargs, rloc, unit, gui>>

\* the process is over
Exit ==
    /\ rpc = "exited"
    /\ rpc' = "idle"
    /\ rargs' = None
    /\ rloc' = NoLocals
    /\ rexit' = None
    /\ rout' = None
    /\ UNCHANGED <<ui, previous, reference, unit, gui>>

Next ==
    \/ Call(Polygons, Answers(Terrains))
    \/ CollectDemGrid
    \/ ComputeSlopePercent
    \/ Smooth
    \/ ComputePercentiles
    \/ SelectPrimary
    \/ SelectFallback
    \/ Convert
    \/ SlopesFromEdges
    \/ Return(FALSE)
    \/ Main
    \/ ReadAndCrop
    \/ MedianDenoise
    \/ CalculateSlopePercent
    \/ BuildMask
    \/ Erosion
    \/ UniformSmooth
    \/ MainExcept
    \/ Exit

Spec == Init /\ [][Next]_vars

(***************************************************************************)
(* Repeated invocations of _slopes_from_polygon whose outcomes the caller  *)
(* keeps: the first invocation is the reference the later ones compare to. *)
(***************************************************************************)
RunPolygons == {Rect(80, 80), Rect(12, 12)}

RunTerrains == {[base |-> 0, gx |-> a, gy |-> 0, kx |-> 0, kg |-> 0] : a \in {0, MaxGrad}}

RunAnswers == {[terrain |-> t, service |-> v] : t \in RunTerrains, v \in Services}

NextRuns ==
    \/ Call(RunPolygons, RunAnswers)
    \/ CollectDemGrid
    \/ ComputeSlopePercent
    \/ Smooth
    \/ ComputePercentiles
    \/ SelectPrimary
    \/ SelectFallback
    \/ Convert
    \/ SlopesFromEdges
    \/ Return(TRUE)

SpecRuns == Init /\ [][NextRuns]_vars

(***************************************************************************)
(* The smoothing window of the two variants, applied on its own:           *)
(* clamp_window_pixels (aclive_operacional.py:303-307) and the window of   *)
(* _compute_percentiles and _smooth (escolha_talhao.py:468, 433-436).      *)
(***************************************************************************)
MaxStepM == 30      \* grid steps of 1 .. MaxStepM metres

WindowsM == {25, 50, 75, 100}       \* requested windows, metres

Idle ==
    /\ upc = "idle"
    /\ projected = <<>>
    /\ original = <<>>
    /\ answers = None
    /\ grid = None
    /\ slopes_pct = None
    /\ smoothed = None
    /\ percentiles = None
    /\ sel = NoLocals
    /\ result = None
    /\ requests = <<>>
    /\ previous = None
    /\ reference = None
    /\ rpc = "idle"
    /\ rargs = None
    /\ rloc = NoLocals
    /\ rexit = None
    /\ rout = None
    /\ app = AppInit
    /\ tab = TabInit

InitWindow ==
    /\ Idle
    /\ \E j \in WindowsM : \E m \in 1..MaxStepM :
          unit = [janela_m |-> 4 * j, step |-> 4 * m, raster |-> 0, sampled |-> 0]   \* 0: not computed yet

\* janela_px = clamp_window_pixels(janela_suavizacao_m, resolucao_m), line 367
ClampWindowPixels ==
    /\ unit.raster = 0
    /\ unit' = [unit EXCEPT !.raster = clamp_window_pixels(unit.janela_m, unit.step)]
    /\ UNCHANGED <<ui, previous, reference, raster, gui>>

\* window_px of line 468 as _smooth (lines 433-436) uses it
SampledWindow ==
    /\ unit.sampled = 0
    /\ unit' = [unit EXCEPT !.sampled = SmoothWindow(WindowPx(unit.janela_m, unit.step))]
    /\ UNCHANGED <<ui, previous, reference, raster, gui>>

NextWindow ==
    \/ ClampWindowPixels
    \/ SampledWindow

SpecWindow == InitWindow /\ [][NextWindow]_vars

(***************************************************************************)
(* winsorize (aclive_operacional.py:255-263) and _winsorize                *)
(* (escolha_talhao.py:447-455) applied once and once more to an array.     *)
(***************************************************************************)
MaxCells == 5       \* arrays of 1 x MaxCells cells

WinsorValues == {0, 10000, 40000, NaN}

WinsorPcts == {0, 10, 25}

InitWinsor ==
    /\ Idle
    /\ \E f \in {"winsorize", "_winsorize"} :
       \E v \in [CellSet(1, MaxCells) -> WinsorValues] :
       \E m \in {CellSet(1, MaxCells), CellSet(1, MaxCells) \ {<<0, 0>>}} :
       \E p \in WinsorPcts :
          unit = [fn |-> f, values |-> v, mask |-> m, pct |-> p,
                  once |-> None, twice |-> None]

Winsorized(f, values, mask, pct) ==
    IF f = "winsorize" THEN winsorize(values, mask, pct) ELSE _winsorize(values, mask, pct)

WinsorizeOnce ==
    /\ unit.once = None
    /\ unit' = [unit EXCEPT !.once = Winsorized(unit.fn, unit.values, unit.mask, unit.pct)]
    /\ UNCHANGED <<ui, previous, reference, raster, gui>>

WinsorizeTwice ==
    /\ unit.once # None
    /\ unit.twice = None
    /\ unit' = [unit EXCEPT !.twice = Winsorized(unit.fn, unit.once, unit.mask, unit.pct)]
    /\ UNCHANGED <<ui, previous, reference, raster, gui>>

NextWinsor ==
    \/ WinsorizeOnce
    \/ WinsorizeTwice

SpecWinsor == InitWinsor /\ [][NextWinsor]_vars

(***************************************************************************)
(* The border buffer of the batch tool from the call of inward_buffer to   *)
(* the Result, applied on its own: aclive_operacional.py:175-190, 351, 415 *)
(***************************************************************************)
BufferSidesM == {4, 20, 60, 120, 200, 400}      \* sides of the parcel, metres

BuffersM == {0, 2, 5, 10, 20, 40}                      \* requested buffers, metres

InitBuffer ==
    /\ Idle
    /\ \E w \in BufferSidesM : \E h \in BufferSidesM : \E b \in BuffersM :
          unit = [at |-> "pipeline",
                  geometry_utm |-> [x0 |-> 0, y0 |-> 0, x1 |-> 1000 * w, y1 |-> 1000 * h],
                  buffer_borda_m |-> 1000 * b]

\* Python's "a or b" on numbers
Or(a, b) == IF a = 0 THEN b ELSE a

\* line 415: the value of the Result's "buffer_borda_m"
ReportedBuffer(effective_buffer, buffer_borda_m) == Or(effective_buffer, buffer_borda_m)

\* inner_geom, effective_buffer = inward_buffer(geometry_utm, buffer_borda_m),
\* line 351
InwardBuffer ==
    /\ unit.at = "pipeline"
    /\ LET inner == inward_buffer(unit.geometry_utm, unit.buffer_borda_m)
       IN unit' = [at |-> "buffered", inner_geom |-> inner[1], effective_buffer |-> inner[2]]
                  @@ unit
    /\ UNCHANGED <<ui, previous, reference, raster, gui>>

\* the "buffer_borda_m" entry of the dict of lines 409-419
ReportBuffer ==
    /\ unit.at = "buffered"
    /\ unit' = [at |-> "returned",
                buffer_borda_m_out |-> ReportedBuffer(unit.effective_buffer, unit.buffer_borda_m)]
               @@ unit
    /\ UNCHANGED <<ui, previous, reference, raster, gui>>

NextBuffer ==
    \/ InwardBuffer
    \/ ReportBuffer

SpecBuffer == InitBuffer /\ [][NextBuffer]_vars

(***************************************************************************)
(* The sampling step and the grid of _collect_dem_grid, from the area of   *)
(* the parcel to the mask, applied on their own: escolha_talhao.py:209-274 *)
(***************************************************************************)
StepSidesM == {50, 100, 150, 200, 400, 500, 1000, 2000, 2500, 6000}   \* sides, metres

StepPolygons ==
    {Rect(4 * w, 4 * h) : w \in StepSidesM, h \in StepSidesM}
    \cup {Rect(4 * 90000, 4 * 450)}                 \* 90 km x 450 m

InitStep ==
    /\ Idle
    /\ \E poly \in StepPolygons : unit = [at |-> "area", polygon |-> poly]

\* step = _choose_sampling_step(area_m2), line 228
ChooseSamplingStep ==
    /\ unit.at = "area"
    /\ unit' = [at |-> "base",
                base |-> _choose_sampling_step(_polygon_area_m2(unit.polygon))] @@ unit
    /\ UNCHANGED <<ui, previous, reference, raster, gui>>

\* lines 229-239
ScaleStep ==
    /\ unit.at = "base"
    /\ unit' = [at |-> "scaled", step |-> SamplingStep(unit.polygon)] @@ unit
    /\ UNCHANGED <<ui, previous, reference, raster, gui>>

\* lines 241-274: the axes and the mask of the attempt that is kept
BuildGrid ==
    /\ unit.at = "scaled"
    /\ LET g == GridAttempt(unit.polygon, _polygon_area_m2(unit.polygon), unit.step, 1)
       IN unit' = [at |-> "grid",
                   sampled_step |-> g.step,
                   ny |-> Len(g.y_coords),
                   nx |-> Len(g.x_coords),
                   sampled |-> Cardinality(g.mask)] @@ unit
    /\ UNCHANGED <<ui, previous, reference, raster, gui>>

NextStep ==
    \/ ChooseSamplingStep
    \/ ScaleStep
    \/ BuildGrid

SpecStep == InitStep /\ [][NextStep]_vars

(***************************************************************************)
(* The handlers of the parcel tab:                                         *)
(* src/fertimaq/tabs/escolha_talhao.py:945-1099                            *)
(* A text typed into an entry is a number in hundredths, like the text of  *)
(* a ".2f" variable; float() of it is the number in thousandths.           *)
(***************************************************************************)
ParseFloat(text) == 10 * text

\* the threshold of line 982, 0.05 degrees
SlopesAvailable(mean_deg, severe_deg) == Max(mean_deg, severe_deg) > 50

\* lines 945-950
_update_slope_radios(g) ==
    [g EXCEPT !.tab = [@ EXCEPT !._radio_buttons =
        IF g.app.slope_avg_deg # EmptyText \/ g.app.slope_max_deg # EmptyText
        THEN "normal" ELSE "disabled"]]

\* line 997: FertiMaqApp defines no attribute of this name
preset_manual_slope(g, slope_deg) == Raised("AttributeError")

\* lines 975-981: what loading, projecting and sampling the file gives
LoadOutcomes ==
    {[raises |-> "ValueError", name |-> n, polygon |-> <<>>, area_ha |-> 0,
      mean_deg |-> 0, severe_deg |-> 0, correction_applied |-> FALSE] :
        n \in {"a.kmz"}}
    \cup {[raises |-> "", name |-> n, polygon |-> Rect(400, 400), area_ha |-> a,
           mean_deg |-> m[1], severe_deg |-> m[2], correction_applied |-> m[3]] :
        n \in {"a.kmz", "b.kmz"}, a \in {1000, 2345},
        m \in {<<0, 30, FALSE>>, <<5000, 12340, FALSE>>, <<14000, 17500, TRUE>>}}

\* lines 974-1022: the state when the try block is left, and whether it is
\* left by an exception
LoadTry(g, load) ==
    IF load.raises # "" THEN [g |-> g, raised |-> TRUE]
    ELSE
    LET slopes_available == SlopesAvailable(load.mean_deg, load.severe_deg)
        kept == [g EXCEPT !.tab = [@ EXCEPT !._projected_polygon = load.polygon,
                                            !._original_polygon = load.polygon,
                                            !._projection_params = [origin |-> load.polygon[1]],
                                            !._map_bounds = [tiles |-> load.name],
                                            !._canvas_bg_photo = [tiles |-> load.name]],
                          !.app = [@ EXCEPT !.kmz_path = load.name]]
        area == set_field_area(kept, load.area_ha, "mapa")
        button == [area EXCEPT !.app = [@ EXCEPT !.manual_area_var = Format2(load.area_ha)],
                               !.tab = [@ EXCEPT !._manual_calc_button = "disabled"]]
        slopes == IF slopes_available
                  THEN set_map_slopes(
                           [button EXCEPT !.tab = [@ EXCEPT
                                !._slope_mean_deg = load.mean_deg,
                                !._correction_active = load.correction_applied]],
                           load.mean_deg, load.severe_deg)
                  ELSE clear_manual_slope(clear_map_slopes(
                           [button EXCEPT !.tab = [@ EXCEPT
                                !._slope_mean_deg = NoNumber,
                                !._correction_active = FALSE]]))
        preset == IF slopes_available THEN preset_manual_slope(slopes, load.mean_deg)
                  ELSE slopes
    IN IF IsRaised(preset) THEN [g |-> slopes, raised |-> TRUE]
       ELSE
       LET named == [preset EXCEPT !.tab = [@ EXCEPT !._file_var = load.name]]
           medio == apply_slope_mode(named, "medio")
           chosen == IF slopes_available /\ medio.ret
                     THEN LET written == WriteSlopeMode(medio.g, "medio")
                          IN [written EXCEPT !.tab = [@ EXCEPT
                                  !._status_var = "Talhao carregado."]]
                     ELSE LET written == WriteSlopeMode(medio.g, "manual")
                          IN [written EXCEPT
                                  !.app = [@ EXCEPT !.slope_selected_deg = EmptyText],
                                  !.tab = [@ EXCEPT !._status_var =
                                      "Nao foi possivel calcular o aclive automaticamente."]]
       IN [g |-> _update_slope_radios(chosen), raised |-> FALSE]

\* lines 1024-1043
LoadExcept(g) ==
    LET emptied == [g EXCEPT !.tab = [@ EXCEPT !._projected_polygon = <<>>,
                                               !._original_polygon = <<>>,
                                               !._projection_params = None,
                                               !._slope_mean_deg = NoNumber,
                                               !._correction_active = FALSE,
                                               !._map_bounds = None,
                                               !._canvas_bg_photo = None,
                                               !._status_var = "Falha ao carregar talhao",
                                               !._file_var = ""],
                             !.app = [@ EXCEPT !.kmz_path = ""]]
        cleared == clear_manual_slope(clear_map_slopes(emptied))
    IN _update_slope_radios(
           [cleared EXCEPT !.tab = [@ EXCEPT !._manual_calc_button = "normal"]])

\* lines 973-1043
_load_kmz(g, load) ==
    IF LoadTry(g, load).raised THEN LoadExcept(LoadTry(g, load).g)
    ELSE LoadTry(g, load).g

\* lines 1045-1081, the entries holding area_text and slope_text
_apply_manual_values(g, area_text, slope_text) ==
    LET typed == [g EXCEPT !.app = [@ EXCEPT !.manual_area_var = area_text,
                                             !.manual_slope_deg_var = slope_text]]
        refused(msg) == [typed EXCEPT !.tab = [@ EXCEPT !._status_var = msg]]
    IN IF typed.tab._projected_polygon # <<>>
       THEN refused("Para usar o modo manual, remova o talhao carregado.")
       ELSE IF area_text = EmptyText THEN refused("Informe a area em hectares.")
       ELSE IF slope_text = EmptyText THEN refused("Informe o aclive manual em graus.")
       ELSE IF ParseFloat(area_text) <= 0 THEN refused("A area deve ser maior que zero.")
       ELSE IF ~(0 <= ParseFloat(slope_text) /\ ParseFloat(slope_text) < 90000)
       THEN refused("O aclive deve estar entre 0 e 90 graus.")
       ELSE LET applied == set_manual_slope(set_manual_area(typed, ParseFloat(area_text)),
                                            ParseFloat(slope_text))
            IN _update_slope_radios(
                   [applied EXCEPT !.tab = [@ EXCEPT
                        !._correction_active = FALSE,
                        !._status_var = "Valores manuais aplicados ao calculo."]])

\* lines 1083-1099
_on_slope_mode_change(g, mode) ==
    LET applied == apply_slope_mode(g, mode)
    IN IF ~applied.ret
       THEN LET restored == WriteSlopeMode(g, g.tab._last_slope_mode)
            IN [restored EXCEPT !.tab = [@ EXCEPT !._status_var =
                    "Selecao indisponivel: informe o valor correspondente."]]
       ELSE [applied.g EXCEPT
                !.tab = [@ EXCEPT !._last_slope_mode = mode,
                                  !._status_var =
                                      "Aclive atualizado para uso nas proximas abas."],
                !.app = [@ EXCEPT !.manual_slope_deg_var =
                    IF mode # "manual" /\ applied.g.app.slope_selected_deg # EmptyText
                    THEN applied.g.app.slope_selected_deg ELSE @]]

\* lines 802-839: a click on an enabled radio button writes its value to the
\* shared slope_mode variable, which runs the write trace, and then runs the
\* command of the button
RadioSelect(g, mode) == _on_slope_mode_change(WriteSlopeMode(g, mode), mode)

RadioEnabled(mode) == mode = "manual" \/ tab._radio_buttons = "normal"

AreaTexts == {EmptyText, 0, 250}

SlopeTexts == {EmptyText, 500, 9500}

LoadKmz ==
    /\ \E load \in LoadOutcomes :
          /\ app' = _load_kmz(Gui, load).app
          /\ tab' = _load_kmz(Gui, load).tab
          /\ unit' = [at |-> "_load_kmz", load |-> load,
                      raised |-> LoadTry(Gui, load).raised, before |-> Gui]
    /\ UNCHANGED <<ui, previous, reference, raster>>

ApplyManualValues ==
    /\ tab._manual_calc_button = "normal"
    /\ \E area_text \in AreaTexts : \E slope_text \in SlopeTexts :
          /\ app' = _apply_manual_values(Gui, area_text, slope_text).app
          /\ tab' = _apply_manual_values(Gui, area_text, slope_text).tab
    /\ unit' = [at |-> "_apply_manual_values"]
    /\ UNCHANGED <<ui, previous, reference, raster>>

RadioClick ==
    /\ \E mode \in {"manual", "medio", "maximo"} :
          /\ RadioEnabled(mode)
          /\ app' = RadioSelect(Gui, mode).app
          /\ tab' = RadioSelect(Gui, mode).tab
          /\ unit' = [at |-> "_on_slope_mode_change", mode |-> mode,
                      before |-> app.slope_mode,
                      available |-> apply_slope_mode(Gui, mode).ret]
    /\ UNCHANGED <<ui, previous, reference, raster>>

NextTab ==
    \/ LoadKmz
    \/ ApplyManualValues
    \/ RadioClick

InitTab ==
    /\ Idle
    /\ unit = None

SpecTab == InitTab /\ [][NextTab]_vars

(***************************************************************************)
(* The slope selection of the application under calls of its methods:      *)
(* src/fertimaq/app.py:160-209                                             *)
(***************************************************************************)
SlopeDegs == {0, 5000, 12340}                       \* 0, 5 and 12.34 degrees

SlopeModes == {"manual", "medio", "maximo", "outro"}

InitApp ==
    /\ Idle
    /\ unit = None

SetMapSlopes ==
    /\ \E a \in SlopeDegs : \E m \in SlopeDegs :
          /\ app' = set_map_slopes(Gui, a, m).app
          /\ tab' = set_map_slopes(Gui, a, m).tab
    /\ UNCHANGED <<ui, previous, reference, raster, unit>>

ClearMapSlopes ==
    /\ app' = clear_map_slopes(Gui).app
    /\ tab' = clear_map_slopes(Gui).tab
    /\ UNCHANGED <<ui, previous, reference, raster, unit>>

SetManualSlope ==
    /\ \E d \in SlopeDegs :
          /\ app' = set_manual_slope(Gui, d).app
          /\ tab' = set_manual_slope(Gui, d).tab
    /\ UNCHANGED <<ui, previous, reference, raster, unit>>

ClearManualSlope ==
    /\ app' = clear_manual_slope(Gui).app
    /\ tab' = clear_manual_slope(Gui).tab
    /\ UNCHANGED <<ui, previous, reference, raster, unit>>

ApplySlopeMode(mode) ==
    /\ app' = apply_slope_mode(Gui, mode).g.app
    /\ tab' = apply_slope_mode(Gui, mode).g.tab
    /\ UNCHANGED <<ui, previous, reference, raster, unit>>

NextApp ==
    \/ SetMapSlopes
    \/ ClearMapSlopes
    \/ SetManualSlope
    \/ ClearManualSlope
    \/ \E mode \in SlopeModes : ApplySlopeMode(mode)

SpecApp == InitApp /\ [][NextApp]_vars

\* the methods of the application and the radio buttons of the tab
NextRadio ==
    \/ NextApp
    \/ RadioClick

SpecRadio == InitApp /\ [][NextRadio]_vars

(***************************************************************************)
(* The calculation of the application: src/fertimaq/app.py:215-296 and     *)
(* src/logica_calc.py:38-236.  The text of linhas is the integer it        *)
(* writes; the other numeric texts are numbers in hundredths.              *)
(***************************************************************************)
preparo_options == [Convencional |-> "CONVENCIONAL", Plantio_Direto |-> "PLANTIO_DIRETO"]

\* lines 259-263 of app.py
_map_choice(value, mapping) ==
    IF value \in DOMAIN mapping THEN mapping[value] ELSE Raised("ValueError")

\* a text that float() and int() accept
Parses(raw) == raw # EmptyText /\ raw # BadText

\* lines 265-272
_parse_float(raw) ==
    IF ~Parses(raw) THEN Raised("ValueError") ELSE ParseFloat(raw)

\* lines 274-281
_parse_int(raw) ==
    IF ~Parses(raw) THEN Raised("ValueError") ELSE raw

\* the fields of the dataclass Inputs, none with a default:
\* src/logica_calc.py:38-60
InputsFields == {"preparo", "solo", "tracao", "superficie", "aclive_percent",
                 "sulcador", "linhas", "cv_trator_disponivel", "velocidade_kmh"}

\* the generated __init__ of Inputs called with keyword arguments
Inputs(kwargs) ==
    IF InputsFields \subseteq DOMAIN kwargs THEN kwargs ELSE Raised("TypeError")

\* lines 239-257 of app.py; the choice of solo and sulcador is read like the
\* one of preparo
_collect_inputs(a) ==
    LET preparo == _map_choice(a.preparo, preparo_options)
        linhas == _parse_int(a.linhas)
        aclive == _parse_float(a.aclive_percent)
        cv_disponivel == _parse_float(a.cv_trator_disponivel)
        velocidade == _parse_float(a.velocidade_kmh)
    IN IF a.preparo \notin DOMAIN preparo_options THEN Raised("ValueError")
       ELSE IF ~Parses(a.linhas) THEN linhas
       ELSE IF ~Parses(a.aclive_percent) THEN aclive
       ELSE IF ~Parses(a.cv_trator_disponivel) THEN cv_disponivel
       ELSE IF ~Parses(a.velocidade_kmh) THEN velocidade
       ELSE Inputs([preparo |-> preparo, solo |-> a.solo, aclive_percent |-> aclive,
                    sulcador |-> a.sulcador, linhas |-> linhas,
                    cv_trator_disponivel |-> cv_disponivel,
                    velocidade_kmh |-> velocidade])

\* src/logica_calc.py:134-144
peso_por_linha_kg(linhas) ==
    IF linhas <= 8 THEN 450 ELSE IF linhas <= 15 THEN 650 ELSE 850

\* src/logica_calc.py:198-236: the validation, and of the results the weight
\* of the seeder in kilograms and the echo of the available power; line 221
\* reads the fields tracao and superficie
calcular(inp) ==
    IF inp.linhas < 1 \/ inp.velocidade_kmh <= 0 \/ inp.cv_trator_disponivel <= 0
       \/ ~(0 <= inp.aclive_percent /\ inp.aclive_percent <= 100000)
    THEN Raised("ValueError")
    ELSE [peso_semeadora_t |-> peso_por_linha_kg(inp.linhas) * inp.linhas,
          cv_trator_disponivel |-> inp.cv_trator_disponivel]

\* lines 283-296 of app.py
_update_results(a, resultado) ==
    IF resultado = None THEN [a EXCEPT !.result_vars = NoResults]
    ELSE [a EXCEPT !.result_vars =
              [peso_semeadora_t |-> round(resultado.peso_semeadora_t, 10),
               cv_trator_disponivel |-> Format2(resultado.cv_trator_disponivel)]]

\* lines 141-149 of app.py, with the tabs that are registered
TabIds == {"escolha_talhao", "calculo_configuracao", "calculo_resultados",
           "dimensionamento_semeadora", "plantabilidade", "custos_hora_maq"}

show_tab(a, tab_id) ==
    IF tab_id \notin TabIds THEN Raised("KeyError") ELSE [a EXCEPT !.tabview = tab_id]

\* lines 215-233 of app.py: the application after the call, and the exception
\* that leaves the call ("" when none)
execute_calculo(a) ==
    LET inputs == _collect_inputs(a)
    IN IF IsRaised(inputs)
       THEN IF inputs.raised = "ValueError"
            THEN [app |-> _update_results([a EXCEPT !.status_var = "Erro nos dados"], None),
                  raised |-> ""]
            ELSE [app |-> a, raised |-> inputs.raised]
       ELSE LET resultado == calcular(inputs)
            IN IF IsRaised(resultado)
               THEN [app |-> _update_results(
                                 [a EXCEPT !.status_var = "Falha ao calcular"], None),
                     raised |-> ""]
               ELSE LET shown == show_tab(
                            _update_results(
                                [a EXCEPT !.status_var = "Calculo executado com sucesso."],
                                resultado),
                            "calculo_resultados")
                    IN IF IsRaised(shown)
                       THEN [app |-> _update_results(
                                [a EXCEPT !.status_var = "Calculo executado com sucesso."],
                                resultado),
                             raised |-> shown.raised]
                       ELSE [app |-> shown, raised |-> ""]

\* what the user can leave in the entries of the inputs
InputTexts ==
    [preparo |-> {"Plantio_Direto", "Convencional", "Outro"},
     linhas |-> {7, 12, 0, EmptyText, BadText},
     aclive_percent |-> {1200, 15000, EmptyText},
     cv_trator_disponivel |-> {8000, 0, BadText},
     velocidade_kmh |-> {560, EmptyText}]

EditInput ==
    /\ \E field \in DOMAIN InputTexts : \E text \in InputTexts[field] :
          app' = [app EXCEPT ![field] = text]
    /\ unit' = [at |-> "edit"]
    /\ UNCHANGED <<ui, previous, reference, raster, tab>>

ExecuteCalculo ==
    /\ app' = execute_calculo(app).app
    /\ unit' = [at |-> "execute_calculo", raised |-> execute_calculo(app).raised,
                inputs |-> _collect_inputs(app)]
    /\ UNCHANGED <<ui, previous, reference, raster, tab>>

NextCalc ==
    \/ EditInput
    \/ ExecuteCalculo

SpecCalc == InitApp /\ [][NextCalc]_vars

(***************************************************************************)
(* Properties                                                              *)
(***************************************************************************)
Rank(s) == IF "operational_percentile" \in DOMAIN s THEN s.operational_percentile ELSE 0

\* the invocation went through the sampled grid and has returned
GridDone == upc = "done" /\ percentiles # None

\* the operational angle the percentile value v gives, lines 569-571
AngleFrom(v) == _pct_to_deg(_apply_correction_pct(TimesSin(v, ALPHA_DEGREES))[1])

\* C1: the fallback is decided on the operational angle derived from the
\* percentile-80 value (rank 70 only if atan(S80 * sin(alpha) / 100) exceeds
\* 15 degrees), so a parcel whose P80 is 30 % ends with grade 15 %, angle about
\* 8.53 degrees, rank 80 and no correction of the operational grade.
C1_OperationalAngleDecides ==
    GridDone =>
        /\ result.operational_percentile = FALLBACK_OPERATIONAL_PERCENTILE
              => _pct_to_deg(TimesSin(percentiles[80], ALPHA_DEGREES))
                     > 1000 * OPERATIONAL_THRESHOLD_DEG
        /\ percentiles[80] = 30000
              => /\ result.operational_percentile = 80
                 /\ sel.grade_operacional_pct = 15000
                 /\ result.operational_deg \in 8530..8532
                 /\ ~sel.operational_corrected

\* the precondition of C2: P80 is above the threshold of 15 degrees as a
\* plain slope, P70 is not
P80OverP70Under ==
    /\ GridDone
    /\ _pct_to_deg(percentiles[80]) > 1000 * OPERATIONAL_THRESHOLD_DEG
    /\ _pct_to_deg(percentiles[70]) <= 1000 * OPERATIONAL_THRESHOLD_DEG

SelectorStep ==
    /\ Rank(sel') \in {0, 80, 70}
    /\ Rank(sel) = 0 => Rank(sel') \in {0, 80}
    /\ Rank(sel) = 70 => Rank(sel') \in {70, 0}
    /\ Rank(sel) = 80 /\ Rank(sel') = 70 => upc = "fallback" /\ upc' = "convert"
    /\ Rank(sel) # 0 /\ Rank(sel') = 0 => upc = "done" /\ upc' = "idle"
    /\ upc' = "done" =>
          /\ result'.operational_percentile \in {80, 70}
          /\ percentiles' # None =>
                /\ result'.operational_percentile = Rank(sel')
                /\ sel'.operational_pct = percentiles'[Rank(sel')]
                /\ result'.operational_deg = AngleFrom(percentiles'[Rank(sel')])

C4_PercentilesMonotone ==
    percentiles # None =>
        /\ percentiles[50] <= percentiles[70]
        /\ percentiles[70] <= percentiles[80]
        /\ percentiles[80] <= percentiles[85]
        /\ percentiles[85] <= percentiles[90]
        /\ percentiles[90] <= percentiles[95]

\* the valid cells of the array under winsorization
WinsorValid == {c \in unit.mask : isfinite(unit.values[c])}

\* C5 as stated: winsorizing twice at the same p equals winsorizing once, cell
\* for cell.
C5_WinsorizeIdempotent ==
    unit.twice # None => unit.twice = unit.once

\* C5, amended: one pass brings every valid cell into [low, high], the
\* interpolated percentiles p and 100 - p of the valid cells; a second pass
\* recomputes the bounds from the clipped values, gets them inside those of the
\* first (low <= low2 <= high2 <= high) and clips into them; the two passes are
\* equal when (n - 1) * p / 100 is a whole number, n the
\* number of valid cells.
C5_WinsorizeContracts ==
    unit.twice # None /\ WinsorValid # {} =>
        LET n == Cardinality(WinsorValid)
            low == nanpercentile(unit.values, WinsorValid, unit.pct)
            high == nanpercentile(unit.values, WinsorValid, 100 - unit.pct)
            low2 == nanpercentile(unit.once, WinsorValid, unit.pct)
            high2 == nanpercentile(unit.once, WinsorValid, 100 - unit.pct)
        IN /\ \A c \in WinsorValid : low <= unit.once[c] /\ unit.once[c] <= high
           /\ low <= low2 /\ low2 <= high2 /\ high2 <= high
           /\ \A c \in WinsorValid : low2 <= unit.twice[c] /\ unit.twice[c] <= high2
           /\ ((n - 1) * unit.pct) % 100 = 0 => unit.twice = unit.once

C5_Witness ==
    /\ unit.twice # None
    /\ unit.once # unit.values
    /\ unit.twice # unit.once

\* the cells of m whose 3 x 3 neighbourhood lies in m
Interior(m) ==
    {c \in m : \A dy \in {-1, 0, 1} : \A dx \in {-1, 0, 1} : <<c[1] + dy, c[2] + dx>> \in m}

\* the cells of the sampled grid that lie in the parcel
InsideCells ==
    {c \in CellSet(Len(grid.y_coords), Len(grid.x_coords)) :
        _point_in_polygon(grid.x_coords[c[2] + 1], grid.y_coords[c[1] + 1], projected)}

\* the mask the policy of C6 prescribes: area in square metres
PolicyMask(pre, area_m2) ==
    IF area_m2 > 300000 /\ 10 * Cardinality(Interior(pre)) >= 7 * Cardinality(pre)
    THEN Interior(pre) ELSE pre

\* C6: a parcel above 30 ha gets one 3 x 3 erosion pass, whose result replaces
\* the mask iff it retains at least 70 % of the valid cells, the pre-erosion
\* mask being used otherwise; a parcel of 30 ha or less is never eroded.  In
\* the sampled variant and in the batch tool.
C6_EdgeBufferPolicy ==
    /\ grid # None =>
          grid.mask = PolicyMask(InsideCells, _polygon_area_m2(projected) \div 32)
    /\ "pre_erosion" \in DOMAIN rloc =>
          rloc.mask = PolicyMask(rloc.pre_erosion, rloc.area_total_m2)

C6_Witness ==
    /\ grid # None
    /\ _polygon_area_m2(projected) \div 32 > 300000
    /\ Interior(InsideCells) # {}
    /\ 10 * Cardinality(Interior(InsideCells)) < 7 * Cardinality(InsideCells)
    /\ grid.mask = InsideCells

IsFlat(t) == t.gx = 0 /\ t.gy = 0 /\ t.kg = 0

\* C7: over a constant elevation every defined slope cell is 0, every entry of
\* the percentile table is 0 and the operational angle is 0, with rank 80 and
\* no correction; the slope cells of the batch tool are 0 as well.
C7_FlatIsZero ==
    /\ answers # None /\ IsFlat(answers.terrain) =>
          /\ slopes_pct # None =>
                \A c \in DOMAIN slopes_pct : slopes_pct[c] \in {0, NaN}
          /\ smoothed # None =>
                \A c \in DOMAIN smoothed : smoothed[c] \in {0, NaN}
          /\ percentiles # None =>
                \A q \in DOMAIN percentiles : percentiles[q] = 0
          /\ upc = "done" =>
                /\ result.operational_deg = 0
                /\ result.operational_percentile = 80
                /\ ~result.correction_applied
    /\ rargs # None /\ IsFlat(rargs.terrain) /\ "slope_pct" \in DOMAIN rloc =>
          \A c \in DOMAIN rloc.slope_pct : rloc.slope_pct[c] \in {0, NaN}

C7_Witness ==
    /\ GridDone
    /\ IsFlat(answers.terrain)
    /\ answers.terrain.base > 0
    /\ \E c \in grid.mask : slopes_pct[c] = 0
    /\ result.operational_deg = 0

\* the invocation at hand has the arguments and the answers of the reference
SameAsReference ==
    /\ upc \in {"done", "raised"}
    /\ reference # None
    /\ projected = reference.projected
    /\ original = reference.original
    /\ answers = reference.answers

SpecifiedWindow(janela_m, step) ==
    LET w == Max(3, (janela_m + step - 1) \div step)
    IN w + (1 - (w % 2))

\* C9: the window the smoother uses is odd, at least 3 and equal to
\* max(3, ceil(window_m / step)) made odd, and it is the same in the batch tool
\* and in the sampled variant.
C9_SameOddWindow ==
    unit.raster # 0 /\ unit.sampled # 0 =>
        /\ unit.raster % 2 = 1 /\ unit.raster >= 3
        /\ unit.sampled % 2 = 1 /\ unit.sampled >= 3
        /\ unit.raster = SpecifiedWindow(unit.janela_m, unit.step)
        /\ unit.sampled = SpecifiedWindow(unit.janela_m, unit.step)

\* C10: the batch tool run on a valid parcel over a flat DEM without gaps does
\* not end in the failure path.
C10_FlatRasterCompletes ==
    rargs # None /\ rargs.readable /\ rargs.nodata = {} /\ IsFlat(rargs.terrain)
        => rpc \notin {"except", "exited"}

\* the grade S * sin(alpha) of the percentile value the selector ended with
UncorrectedGrade == TimesSin(sel.operational_pct, ALPHA_DEGREES)

\* C11 as stated: grade = S * sin(alpha), angle = atan(grade / 100); the grade
\* is multiplied by 0.7 iff that angle is above 20 degrees, once, and
\* correction_applied is true exactly when the operational grade was
\* multiplied.
C11_FlagIsOperationalCorrection ==
    GridDone =>
        /\ sel.operational_corrected <=>
              AtanDeg(UncorrectedGrade) > 1000 * SLOPE_CORRECTION_THRESHOLD_DEG
        /\ result.correction_applied <=> sel.operational_corrected

\* C11, amended: grade = S * sin(alpha); the grade is multiplied by 0.7 iff
\* atan(grade / 100) is strictly above 20 degrees, once, and the angle reported
\* is atan of the resulting grade without another test; correction_applied is
\* true exactly when one of the three reported values was multiplied by 0.7:
\* the mean, the operational grade or the 95th percentile.
C11_ConversionOnce ==
    GridDone =>
        LET over(v) == AtanDeg(v) > 1000 * SLOPE_CORRECTION_THRESHOLD_DEG
        IN /\ sel.operational_corrected <=> over(UncorrectedGrade)
           /\ sel.grade_operacional_pct =
                 IF over(UncorrectedGrade) THEN (UncorrectedGrade * 7) \div 10
                 ELSE UncorrectedGrade
           /\ result.operational_deg = AtanDeg(sel.grade_operacional_pct)
           /\ result.correction_applied <=>
                 \/ over(percentiles[50])
                 \/ over(UncorrectedGrade)
                 \/ over(percentiles[95])

C11_Witness ==
    /\ GridDone
    /\ sel.operational_corrected
    /\ sel.grade_operacional_pct = (UncorrectedGrade * 7) \div 10
    /\ result.operational_deg > 1000 * SLOPE_CORRECTION_THRESHOLD_DEG

\* C12: the batch tool returns 0 only after printing the JSON result; when the
\* pipeline fails it returns 1, having logged one error record, the last of the
\* log, and having printed nothing to stdout.
C12_ExitCodes ==
    rexit # None =>
        /\ rexit.status \in {0, 1}
        /\ rexit.status = 0 => rout.stdout # <<>> /\ ~IsRaised(rloc)
        /\ IsRaised(rloc) =>
              /\ rexit.status = 1
              /\ rout.stdout = <<>>
              /\ Len(SelectSeq(rout.log, LAMBDA l : l = "ERROR")) = 1
              /\ rout.log[Len(rout.log)] = "ERROR"

C12_Witness ==
    /\ rexit # None
    /\ rloc = Raised("ValueError")
    /\ rexit.status = 1
    /\ Len(rout.log) > 2


\* the invocation has sent the batch of its sampled grid to the resolver
BatchSent == upc \notin {"idle", "collect", "raised"} /\ requests # <<>>

\* the coordinates of that batch, lines 258-276
BatchCoords ==
    GridAttempt(projected, _polygon_area_m2(projected), SamplingStep(projected), 1).coords

\* the grid holds, at each cell of its mask, the elevation dataset d gives for
\* the coordinates of that cell
GridFrom(d) ==
    \A c \in grid.mask :
        grid.elevations[c] = DatasetElev(d, answers.terrain, grid.x_coords[c[2] + 1],
                                         grid.y_coords[c[1] + 1])

\* C13: the elevation resolver is all-or-nothing per batch: either every
\* requested point comes back with an elevation of one and the same provider,
\* or the batch fails (no elevation at all, and no grid).
C13_AllOrNothing ==
    BatchSent =>
        LET values == _fetch_elevations(BatchCoords, answers).values
        IN \/ values = <<>> /\ grid = None
           \/ /\ Len(values) = Len(BatchCoords)
              /\ grid # None
              /\ Cardinality(grid.mask) = Len(BatchCoords)
              /\ \E d \in 1..Len(Datasets) : GridFrom(d)

\* a batch of more than one request, answered in full by a later provider
\* after an earlier one failed at its second request
C13_Witness ==
    /\ BatchSent
    /\ grid # None
    /\ Cardinality(grid.mask) > chunk_size
    /\ answers.service[1].chunk = 2
    /\ GridFrom(3)

Queried(d) == \E i \in 1..Len(requests) : requests[i][1] = Datasets[d]

Priority(name) == CHOOSE d \in 1..Len(Datasets) : Datasets[d] = name

\* C14: the providers are consulted in the fixed order srtm30m, aster30m,
\* etopo1; a provider is consulted only when every one before it failed the
\* batch, none is consulted after one answered, and the elevations are those
\* of the first that answered.
C14_ProviderPriority ==
    BatchSent =>
        /\ \A i \in 1..Len(requests) : \A j \in i..Len(requests) :
               Priority(requests[i][1]) <= Priority(requests[j][1])
        /\ Queried(1)
        /\ \A d \in 2..Len(Datasets) :
               Queried(d) <=> /\ Queried(d - 1)
                              /\ DatasetFails(answers.service[d - 1], Len(BatchCoords))
        /\ grid # None =>
               /\ GridFrom(Priority(requests[Len(requests)][1]))
               /\ ~DatasetFails(answers.service[Priority(requests[Len(requests)][1])],
                                Len(BatchCoords))
        /\ grid = None => \A d \in 1..Len(Datasets) : Queried(d)

\* the first provider failed and the second answered
C14_Witness ==
    /\ BatchSent
    /\ grid # None
    /\ Queried(1)
    /\ Queried(2)
    /\ ~Queried(3)
    /\ GridFrom(2)

\* every pass of the loop of lines 244-274 leaves fewer than 3 valid cells
AttemptsExhausted ==
    /\ _polygon_area_m2(projected) > 0
    /\ GridAttempt(projected, _polygon_area_m2(projected), SamplingStep(projected), 1) = None

\* C15: when fewer than 3 cells are valid the step is halved (never below 5 m)
\* and the grid rebuilt, at most 3 times; when every attempt leaves fewer than
\* 3 valid cells the invocation ends with NoValidPixelsError instead of
\* producing a Result.
C15_ExhaustedAttemptsRaise ==
    upc \notin {"idle", "collect"} /\ AttemptsExhausted => upc = "raised" /\ result = None

\* every dataset fails the batch of the sampled grid
SourcesExhausted ==
    /\ BatchSent
    /\ \A d \in 1..Len(Datasets) : DatasetFails(answers.service[d], Len(BatchCoords))

\* C16: when every elevation source fails for the sampling grid the
\* invocation is terminal with ElevationUnavailableError: no slope Result, and
\* in particular no value computed from the polygon's vertices, is emitted.
C16_ElevationUnavailableRaises ==
    SourcesExhausted => upc = "raised" /\ result = None

\* the distinct vertices of the boundary the invocation works on
DistinctVertices == {projected[i] : i \in 1..Len(projected)}

\* C17: a boundary with fewer than 3 distinct vertices is rejected with
\* InputGeometryError before any grid or slope stage runs, a ring of 3 listed
\* points whose first and last coincide included.
C17_DegenerateBoundaryRejected ==
    upc \notin {"idle", "raised"} => Cardinality(DistinctVertices) >= 3

\* inward_buffer gave the parcel up: its last buffer is empty and the
\* original polygon is used (lines 187-189)
BufferAbandoned ==
    unit.inner_geom = unit.geometry_utm
    /\ is_empty(Shrink(unit.geometry_utm, unit.buffer_borda_m))

ValidCells == {c \in grid.mask : isfinite(grid.elevations[c])}

\* the partial derivative C19 prescribes at cell c, whose neighbours on the
\* axis are lo and hi, as the numerator of a fraction over 2 * step
PrescribedDerivative(lo, c, hi) ==
    IF lo \in ValidCells /\ hi \in ValidCells
    THEN grid.elevations[hi] - grid.elevations[lo]
    ELSE IF lo \in ValidCells THEN 2 * (grid.elevations[c] - grid.elevations[lo])
    ELSE IF hi \in ValidCells THEN 2 * (grid.elevations[hi] - grid.elevations[c])
    ELSE 0

ValidOnX(c) == Cardinality({<<c[1], c[2] - 1>>, <<c[1], c[2] + 1>>} \cap ValidCells)

ValidSlopes == {c \in grid.mask : isfinite(slopes_pct[c])}

\* the valid cells lying inside the window of w x w cells centred on c
InWindow(c, w) ==
    {d \in ValidSlopes : /\ d[1] - c[1] \in -((w - 1) \div 2)..((w - 1) \div 2)
                         /\ d[2] - c[2] \in -((w - 1) \div 2)..((w - 1) \div 2)}

\* the mean C20 prescribes at cell c
PrescribedMean(c, w) ==
    IF InWindow(c, w) = {} THEN NaN
    ELSE nanmean(slopes_pct, InWindow(c, w), Len(grid.x_coords))

\* C20: for every cell, the cells on the border of the grid included, the
\* smoothed value is the arithmetic mean of the valid finite slope values of
\* the cells lying inside the window centred on it, each such cell counted
\* once; invalid cells add nothing to the sum and nothing to the divisor, and
\* a cell whose window contains no valid cell stays undefined.
C20_MeanOfWindow ==
    smoothed # None =>
        \A c \in DOMAIN smoothed :
            smoothed[c] = PrescribedMean(c, SmoothWindow(WindowPx(4 * 50, grid.step)))

\* C21: when p <= 0 or no cell is valid the grid is returned unchanged;
\* otherwise low and high are the p-th and (100 - p)-th percentiles of the
\* valid values, low <= high, every defined cell of the output lies in
\* [low, high], cells already inside keep their value and undefined cells stay
\* undefined.
C21_Winsorizer ==
    unit.once # None =>
        IF unit.pct <= 0 \/ WinsorValid = {} THEN unit.once = unit.values
        ELSE LET low == nanpercentile(unit.values, WinsorValid, unit.pct)
                 high == nanpercentile(unit.values, WinsorValid, 100 - unit.pct)
             IN /\ low <= high
                /\ \A c \in DOMAIN unit.values :
                      IF isfinite(unit.values[c])
                      THEN /\ low <= unit.once[c]
                           /\ unit.once[c] <= high
                           /\ low <= unit.values[c] /\ unit.values[c] <= high
                                 => unit.once[c] = unit.values[c]
                      ELSE unit.once[c] = NaN

\* a pass that clips a cell from above and one from below, keeps one and
\* leaves one undefined
C21_Witness ==
    /\ unit.once # None
    /\ unit.pct > 0
    /\ \E c \in DOMAIN unit.values : isfinite(unit.values[c]) /\ unit.once[c] < unit.values[c]
    /\ \E c \in DOMAIN unit.values : isfinite(unit.values[c]) /\ unit.once[c] > unit.values[c]
    /\ \E c \in DOMAIN unit.values : isfinite(unit.values[c]) /\ unit.once[c] = unit.values[c]
    /\ \E c \in DOMAIN unit.values : unit.values[c] = NaN

\* the cells that are mask-valid and finite in the smoothed grid
ValidSmoothed == {c \in grid.mask : isfinite(smoothed[c])}

\* the smoothed grid without what the smoother gave the cells off the mask
MaskedSmoothed == [c \in DOMAIN smoothed |-> IF c \in grid.mask THEN smoothed[c] ELSE NaN]

PrescribedBaseStep(a) ==
    IF a <= M2(30000) THEN 4 * 10
    ELSE IF a <= M2(200000) THEN 4 * 20
    ELSE IF a <= M2(1000000) THEN 4 * 35
    ELSE IF a <= M2(5000000) THEN 4 * 60
    ELSE 4 * 90

\* C23: the base step is 10 m up to 3 ha, 20 m up to 20 ha, 35 m up to
\* 100 ha, 60 m up to 500 ha and 90 m above; when the estimated cell count at
\* the base step exceeds 4,000 the step is multiplied by
\* sqrt(estimated_count / 4000); and the grid that is finally sampled has at
\* most 4,000 cells.
C23_SamplingStep ==
    /\ unit.at \in {"base", "scaled", "grid"} =>
          unit.base = PrescribedBaseStep(_polygon_area_m2(unit.polygon))
    /\ unit.at \in {"scaled", "grid"} =>
          LET sx == unit.polygon[2][1] + unit.base
              sy == unit.polygon[3][2] + unit.base
          IN unit.step = IF sx * sy > 4000 * unit.base * unit.base
                         THEN Sqrt((sx * sy) \div 4000) ELSE unit.base
    /\ unit.at = "grid" => unit.ny * unit.nx <= 4000 /\ unit.sampled <= 4000

\* the values of axis are spaced by step from lo on and reach hi
AxisOf(axis, lo, hi, step) ==
    /\ Len(axis) >= 1
    /\ axis[1] = lo
    /\ \A k \in 1..(Len(axis) - 1) : axis[k + 1] - axis[k] = step
    /\ axis[Len(axis)] >= hi

\* C24: every DemGrid returned by the grid builder is consistent: elevations
\* and mask have the shape len(y_coords) x len(x_coords), the recorded step is
\* the spacing of the axes actually used (also after retries), every mask-true
\* cell holds the elevation resolved for its own coordinate (also when the
\* eroded mask replaced the original one) and every mask-false cell is
\* undefined.
C24_DemGridConsistent ==
    grid # None =>
        /\ DOMAIN grid.elevations = CellSet(Len(grid.y_coords), Len(grid.x_coords))
        /\ grid.mask \subseteq CellSet(Len(grid.y_coords), Len(grid.x_coords))
        /\ AxisOf(grid.x_coords, SeqMin(projected, 1), SeqMax(projected, 1), grid.step)
        /\ AxisOf(grid.y_coords, SeqMin(projected, 2), SeqMax(projected, 2), grid.step)
        /\ \E d \in 1..Len(Datasets) : GridFrom(d)
        /\ \A c \in DOMAIN grid.elevations :
               c \in grid.mask <=> isfinite(grid.elevations[c])

\* a grid over sloping terrain whose eroded mask replaced the original one
C24_Witness ==
    /\ grid # None
    /\ grid.mask # InsideCells
    /\ \E c \in grid.mask : \E e \in grid.mask : grid.elevations[c] # grid.elevations[e]

\* the value of the source of the current slope mode
ModeSource ==
    IF app.slope_mode = "medio" THEN app._field_slope_avg_deg
    ELSE IF app.slope_mode = "maximo" THEN app._field_slope_max_deg
    ELSE IF app.slope_mode = "manual" THEN app._manual_slope_deg
    ELSE NoNumber

\* the selected slope is consistent with the selected mode
SelectionConsistent ==
    /\ app.slope_mode \in {"medio", "maximo"} =>
          app._field_slope_avg_deg # NoNumber /\ app._field_slope_max_deg # NoNumber
    /\ app.slope_mode = "manual" /\ app.slope_selected_deg # EmptyText =>
          app._manual_slope_deg # NoNumber
    /\ app.slope_selected_deg # EmptyText =>
          ModeSource # NoNumber /\ app.slope_selected_deg = Format2(ModeSource)

\* a call of apply_slope_mode that returns False leaves the selection alone
RefusalChangesNothing ==
    \A mode \in SlopeModes :
        ApplySlopeMode(mode) /\ ~apply_slope_mode(Gui, mode).ret =>
            /\ app'.slope_mode = app.slope_mode
            /\ app'.slope_selected_deg = app.slope_selected_deg
            /\ app'.aclive_percent = app.aclive_percent

\* C25: after any sequence of set_map_slopes, clear_map_slopes,
\* set_manual_slope, clear_manual_slope and apply_slope_mode the selected slope
\* is consistent with the selected mode: slope_mode is "medio" or "maximo" only
\* while map slopes are set, "manual" with a non-empty slope_selected_deg only
\* while a manual slope is set, and a non-empty slope_selected_deg equals the
\* current value of the source of the current mode; apply_slope_mode returning
\* False changes none of slope_mode, slope_selected_deg and aclive_percent.
C25_SelectionConsistent ==
    [](SelectionConsistent) /\ [][RefusalChangesNothing]_vars

Loaded == unit # None /\ unit.at = "_load_kmz"

\* C27: when a parcel file loads and its slopes are available (max(mean, P95)
\* > 0.05 degrees), _load_kmz ends in the loaded state: the projected and the
\* original polygon are retained, the map slopes of the application are
\* (mean, P95), slope_mode is "medio" and slope_selected_deg is the mean
\* slope; the failure branch is not taken.
C27_LoadedState ==
    Loaded /\ unit.load.raises = ""
           /\ SlopesAvailable(unit.load.mean_deg, unit.load.severe_deg) =>
        /\ ~unit.raised
        /\ tab._projected_polygon = unit.load.polygon
        /\ tab._original_polygon = unit.load.polygon
        /\ app._field_slope_avg_deg = unit.load.mean_deg
        /\ app._field_slope_max_deg = unit.load.severe_deg
        /\ app.slope_mode = "medio"
        /\ app.slope_selected_deg = Format2(unit.load.mean_deg)

\* C28: when any step of _load_kmz raises, the tab and the application return
\* to the no-parcel state: polygon lists empty, projection and map bounds
\* None, kmz_path empty, map slopes and manual slope cleared, slope_mode not
\* "medio" or "maximo", and no value written by the failed load
\* (area_hectares, area_source, manual_area_var, the disabled
\* manual-calculation button) survives it.
C28_FailedLoadLeavesNoParcel ==
    Loaded /\ unit.raised =>
        /\ tab._projected_polygon = <<>> /\ tab._original_polygon = <<>>
        /\ tab._projection_params = None /\ tab._map_bounds = None
        /\ app.kmz_path = ""
        /\ app._field_slope_avg_deg = NoNumber /\ app._field_slope_max_deg = NoNumber
        /\ app.slope_avg_deg = EmptyText /\ app.slope_max_deg = EmptyText
        /\ app._manual_slope_deg = NoNumber /\ app.manual_slope_deg_var = EmptyText
        /\ app.slope_mode \notin {"medio", "maximo"}
        /\ app.area_hectares = unit.before.app.area_hectares
        /\ app.area_source = unit.before.app.area_source
        /\ app.manual_area_var = unit.before.app.manual_area_var
        /\ app._field_area_value = unit.before.app._field_area_value
        /\ tab._manual_calc_button = "normal"

\* the last handler run was execute_calculo
Executed == unit # None /\ unit.at = "execute_calculo"

\* collecting the inputs or running the calculation failed
CalculationFailed ==
    IsRaised(unit.inputs) \/ IsRaised(calcular(unit.inputs))

\* C29: execute_calculo never propagates an exception and never leaves stale
\* results: whenever collecting the inputs or running the calculation fails
\* for any reason, status_var carries an error message and every result
\* variable is reset to "--"; results are other than "--" only after a
\* calculation that succeeded on the current inputs.
C29_NoExceptionNoStaleResults ==
    /\ Executed => unit.raised = ""
    /\ Executed /\ CalculationFailed =>
          /\ app.status_var \in {"Erro nos dados", "Falha ao calcular"}
          /\ app.result_vars = NoResults
    /\ app.result_vars # NoResults =>
          /\ ~IsRaised(_collect_inputs(app))
          /\ ~IsRaised(calcular(_collect_inputs(app)))
          /\ app.result_vars = _update_results(app, calcular(_collect_inputs(app))).result_vars

MaxRounds == 12

RECURSIVE Reduced(_, _)
\* the buffer after k rounds of reduction by 0.75
Reduced(buffer_m, k) == IF k = 0 THEN buffer_m ELSE (Reduced(buffer_m, k - 1) * 3) \div 4

\* the loop of inward_buffer stops at the buffer current: it is at most 3 m, or
\* the shrunken geometry is non-empty, at least 10,000 m2 and at least 70 % of
\* the original area
Stops(current) ==
    LET geom == Shrink(unit.geometry_utm, current)
    IN \/ current <= 3000
       \/ /\ ~is_empty(geom)
          /\ RectArea(geom) >= 100 * 10000
          /\ 10 * RectArea(geom) >= 7 * RectArea(unit.geometry_utm)

\* the buffer of the first round at which the loop stops
LastBuffer ==
    Reduced(unit.buffer_borda_m,
            CHOOSE k \in 0..MaxRounds :
                /\ Stops(Reduced(unit.buffer_borda_m, k))
                /\ \A j \in 0..(k - 1) : ~Stops(Reduced(unit.buffer_borda_m, j)))

\* what C30 says of the loop and of the geometry returned
BufferTerminates ==
    /\ \E k \in 0..MaxRounds : Stops(Reduced(unit.buffer_borda_m, k))
    /\ ~is_empty(unit.inner_geom)
    /\ unit.effective_buffer # 0 =>
          /\ unit.effective_buffer = LastBuffer
          /\ unit.inner_geom = Shrink(unit.geometry_utm, LastBuffer)
    /\ unit.effective_buffer = 0 => unit.inner_geom = unit.geometry_utm

\* the original polygon is returned because the last buffer emptied it
LastBufferEmptied ==
    unit.inner_geom = unit.geometry_utm /\ is_empty(Shrink(unit.geometry_utm, LastBuffer))

====
